---- MODULE Spec2Model ----
(***************************************************************************)
(* CPU topology detection (internal/topology) and CPU-affinity generation  *)
(* (internal/affinity) of proxmox-affinity, as a state machine.            *)
(*                                                                         *)
(* The host is the content of /proc/cpuinfo (vendor) and of the per-CPU    *)
(* directories under /sys/devices/system/cpu (sysfs).  Detect builds the   *)
(* topology snapshot from it; Generate and FormatCPUs are then called      *)
(* against that snapshot.                                                  *)
(*                                                                         *)
(* Hosts are drawn from what Linux exposes: a machine's logical ids are     *)
(* 0..n-1, a core has one or two threads (numbered in any way), the        *)
(* thread_siblings_list files of its threads agree, and the threads of one *)
(* core agree on package id, core id, L3 id and capacity.  The cpuN        *)
(* directories listed are those of the whole machine or, in a view         *)
(* restricted to a CPU set, of a part of it that may lack the first thread *)
(* of a core.                                                              *)
(***************************************************************************)
EXTENDS Integers, Sequences, FiniteSets, TLC

\* Bounds of the model.
MaxCPUs == 4
MaxLen == 4
MaxID == 8
MaxManualCPUs == 3
MaxIndices == 3
MaxIndex == 1
MaxFaultCPUs == 2
MaxFaults == 2
MaxRecords == 2
MaxUIGroups == 2
MaxVMs == 2
MaxApplies == 2

\* const defaultCoresPerCCD = 8
defaultCoresPerCCD == 8

VARIABLES
    vendor,       \* vendor_id line of /proc/cpuinfo as Detect read it
    sysfs,        \* logical CPU id -> the files of its sysfs directory, as
                  \* Detect read them (<<>> before)
    topo,         \* *CPUTopology returned by Detect (NilTopology before)
    pc,           \* "start", "detected", "failed", "generated", "manual",
                  \* "formatted", "expanded", "classified", "grouped": the call
                  \* that returned last
    req,          \* the Request of the last Generate / GenerateManual call
    options,      \* []Option returned by the last Generate call, or the
                  \* one *Option of the last GenerateManual call (<<>> is nil)
    err,          \* error returned by the last call ("" is nil)
    cpusArg,      \* argument of the last FormatCPUs call
    affinityStr,  \* string returned by the last FormatCPUs call
    selectedCCDIndices,  \* index list passed to the last call if that was
                  \* a GenerateManual call (<<>> otherwise)
    repeated,     \* the last call had the arguments of the call before it
    expandArg,    \* physicalCores and includeSMT of the last expandToVCPUs call
    vcpus,        \* slice returned by the last expandToVCPUs call
    cpuInfos,     \* []CPUInfo passed to the last detectArchitecture or
                  \* buildAMDTopology call made on its own (<<>> before)
    architecture, \* Architecture returned by the last detectArchitecture
                  \* call made on its own ("" before)
    ui,           \* the Model of the interactive flow (its step, cursors and
                  \* selections), with quit set once Update returned tea.Quit
    applyCmds,    \* applyAffinity commands returned by Update and not yet run
    applyResults, \* applyResultMsg messages not yet delivered to Update
    setAffinityCalls  \* calls of pve.SetAffinity made by applyAffinity commands

vars == <<vendor, sysfs, topo, pc, req, options, err, cpusArg, affinityStr,
          selectedCCDIndices, repeated, expandArg, vcpus, cpuInfos, architecture,
                   ui, applyCmds, applyResults, setAffinityCalls>>

----------------------------------------------------------------------------
\* Slices of ints.

Range(s) == {s[i] : i \in 1..Len(s)}

\* sort.Ints
SortInts(s) == SortSeq(s, LAMBDA a, b : a < b)

\* The ascending slice of a finite set of ints.
RECURSIVE SetToSortedSeq(_)
SetToSortedSeq(S) ==
    IF S = {} THEN <<>>
    ELSE LET m == CHOOSE x \in S : \A y \in S : x <= y
         IN  <<m>> \o SetToSortedSeq(S \ {m})

\* s[:n]
Take(s, n) == SubSeq(s, 1, n)

RECURSIVE dedupeFrom(_, _, _)
dedupeFrom(values, i, last) ==
    IF i > Len(values) THEN <<>>
    ELSE IF values[i] = last THEN dedupeFrom(values, i + 1, last)
    ELSE <<values[i]>> \o dedupeFrom(values, i + 1, values[i])

dedupeSorted(values) ==
    IF Len(values) = 0 THEN values
    ELSE dedupeFrom(values, 1, values[1] - 1)

RECURSIVE Flatten(_)
Flatten(ss) == IF Len(ss) = 0 THEN <<>> ELSE Head(ss) \o Flatten(Tail(ss))

----------------------------------------------------------------------------
\* The topology reader (sysfs.go, readCPUInfo).

\* A file holding an int: st is "ok" (readable, parses to v), "ENOENT",
\* "EACCES", "empty" or "garbage".
IntFile(st, v) == [st |-> st, v |-> v]
Absent == IntFile("ENOENT", 0)

\* ReadIntFile: (value, error)
ReadIntFile(f) ==
    IF f.st = "ok" THEN [v |-> f.v, err |-> ""] ELSE [v |-> 0, err |-> f.st]

\* ReadListFile: (values, error); an empty file is the empty list.
ReadListFile(f) ==
    IF f.st = "ok" THEN [v |-> dedupeSorted(SortInts(f.v)), err |-> ""]
    ELSE IF f.st = "empty" THEN [v |-> <<>>, err |-> ""]
    ELSE [v |-> <<>>, err |-> f.st]

readOptionalInt(f, defaultValue) ==
    LET r == ReadIntFile(f)
    IN  IF r.err = "" THEN r
        ELSE IF r.err = "ENOENT" THEN [v |-> defaultValue, err |-> ""]
        ELSE [v |-> 0, err |-> r.err]

readOptionalList(f, defaultValue) ==
    LET r == ReadListFile(f)
    IN  IF r.err = "" THEN r
        ELSE IF r.err = "ENOENT" THEN [v |-> defaultValue, err |-> ""]
        ELSE [v |-> <<>>, err |-> r.err]

\* ReadL3CacheID; the cache directory is summarised by c.st: "nodir" (no
\* cache directory), "nolevel3" (no entry of level 3), "found" (a level-3
\* entry, whose id file is c.id).
ReadL3CacheID(c) ==
    IF c.st = "found" THEN ReadIntFile(c.id)
    ELSE [v |-> -1, err |-> "L3 cache not found"]

readCPUCapacity(f) ==
    LET r == ReadIntFile(f) IN IF r.err # "" THEN 0 ELSE r.v

detectCoreType(capacity) ==
    IF capacity >= 1000 THEN "performance"
    ELSE IF capacity > 0 /\ capacity < 900 THEN "efficiency"
    ELSE "unknown"

\* readCPUInfo: (info, error); info is meaningful when err = "".
readCPUInfo(cpuID, d) ==
    LET packageID == readOptionalInt(d.physical_package_id, 0)
        coreID    == readOptionalInt(d.core_id, cpuID)
        clusterID == readOptionalInt(d.cluster_id, -1)
        dieID     == readOptionalInt(d.die_id, -1)
        l3CacheID == ReadL3CacheID(d.cache).v
        sibs      == readOptionalList(d.thread_siblings_list, <<cpuID>>)
        siblings  == dedupeSorted(SortInts(sibs.v))
        capacity  == readCPUCapacity(d.cpu_capacity)
        firstErr  == IF packageID.err # "" THEN packageID.err
                     ELSE IF coreID.err # "" THEN coreID.err
                     ELSE IF clusterID.err # "" THEN clusterID.err
                     ELSE IF dieID.err # "" THEN dieID.err
                     ELSE sibs.err
    IN  [err  |-> firstErr,
         info |-> [ID             |-> cpuID,
                   PackageID      |-> packageID.v,
                   CoreID         |-> coreID.v,
                   ClusterID      |-> clusterID.v,
                   DieID          |-> dieID.v,
                   L3CacheID      |-> l3CacheID,
                   ThreadSiblings |-> siblings,
                   IsFirstThread  |-> Len(siblings) = 0 \/ cpuID = siblings[1],
                   CoreType       |-> detectCoreType(capacity),
                   Capacity       |-> capacity]]

\* ListCPUs: the ids of the cpuN directories, ascending.
ListCPUs(fs) == SetToSortedSeq(DOMAIN fs)

----------------------------------------------------------------------------
\* The topology builder (Detect and what it calls).

NilTopology == [Architecture |-> "nil"]

\* a / b of Go: the quotient truncated toward zero.
GoDiv(a, b) == IF a >= 0 THEN a \div b ELSE -((-a) \div b)

IDsOf(cpus) == [i \in 1..Len(cpus) |-> cpus[i].ID]

\* FirstThreads without the IsFirstThread test.
FirstThreads_everyThread(cpus) == cpus

FirstThreads(cpus) == SelectSeq(cpus, LAMBDA c : c.IsFirstThread)

hasHybridCores(cpus) ==
    Cardinality({cpus[i].Capacity : i \in {j \in 1..Len(cpus) : cpus[j].Capacity > 0}}) > 1

hasMultipleL3(cpus) ==
    Cardinality({cpus[i].L3CacheID : i \in {j \in 1..Len(cpus) : cpus[j].L3CacheID >= 0}}) > 1

\* detectArchitecture asking for more than one L3 id before it asks for the
\* Intel token.
detectArchitecture_l3BeforeIntel(vnd, cpus) ==
    IF vnd \in {"AuthenticAMD", "AMD"} THEN "amd"
    ELSE IF hasMultipleL3(cpus) THEN "amd"
    ELSE IF vnd = "GenuineIntel" /\ hasHybridCores(cpus) THEN "intel_hybrid"
    ELSE "generic"

detectArchitecture(vnd, cpus) ==
    IF vnd \in {"AuthenticAMD", "AMD"} THEN "amd"
    ELSE IF vnd = "GenuineIntel"
         THEN (IF hasHybridCores(cpus) THEN "intel_hybrid" ELSE "generic")
    ELSE IF hasMultipleL3(cpus) THEN "amd"
    ELSE "generic"

\* detectCCDMethod asking for cluster ids before it asks for L3 ids.
detectCCDMethod_clusterBeforeL3(cpus) ==
    IF Len(cpus) = 0 THEN "inferred"
    ELSE IF \A i \in 1..Len(cpus) : cpus[i].ClusterID >= 0 THEN "cluster_id"
    ELSE IF (\A i \in 1..Len(cpus) : cpus[i].L3CacheID >= 0)
            /\ Cardinality({cpus[i].L3CacheID : i \in 1..Len(cpus)}) > 1
         THEN "l3_cache"
    ELSE IF \A i \in 1..Len(cpus) : cpus[i].DieID >= 0 THEN "die_id"
    ELSE "inferred"

detectCCDMethod(cpus) ==
    IF Len(cpus) = 0 THEN "inferred"
    ELSE IF (\A i \in 1..Len(cpus) : cpus[i].L3CacheID >= 0)
            /\ Cardinality({cpus[i].L3CacheID : i \in 1..Len(cpus)}) > 1
         THEN "l3_cache"
    ELSE IF \A i \in 1..Len(cpus) : cpus[i].ClusterID >= 0 THEN "cluster_id"
    ELSE IF \A i \in 1..Len(cpus) : cpus[i].DieID >= 0 THEN "die_id"
    ELSE "inferred"

\* The ccdID groupByCCD computes for one CPU.
ccdIDOf(cpu, method) ==
    CASE method = "l3_cache"   -> cpu.L3CacheID
      [] method = "cluster_id" -> cpu.ClusterID
      [] method = "die_id"     -> cpu.DieID
      [] OTHER -> IF defaultCoresPerCCD > 0
                  THEN GoDiv(cpu.CoreID, defaultCoresPerCCD) ELSE 0

\* The (pkgID, ccdID) keys in the order of the sort by (PackageID, ID).
RECURSIVE SortKeys(_)
SortKeys(K) ==
    IF K = {} THEN <<>>
    ELSE LET m == CHOOSE k \in K : \A o \in K :
                      k[1] < o[1] \/ (k[1] = o[1] /\ k[2] <= o[2])
         IN  <<m>> \o SortKeys(K \ {m})

\* The groups of groupByCCD after the sort, before the renumbering.
ccdBuckets(cpus, method) ==
    LET keyOf(c) == <<c.PackageID, ccdIDOf(c, method)>>
        keys == SortKeys({keyOf(cpus[i]) : i \in 1..Len(cpus)})
        bucket(k) ==
            LET members == SelectSeq(cpus, LAMBDA c : keyOf(c) = k)
            IN  [ID           |-> k[2],
                 PackageID    |-> k[1],
                 Type         |-> "unknown",
                 L3CacheID    |-> members[1].L3CacheID,
                 PhysicalCPUs |-> dedupeSorted(SortInts(IDsOf(FirstThreads(members)))),
                 AllCPUs      |-> dedupeSorted(SortInts(IDsOf(members)))]
    IN  [i \in 1..Len(keys) |-> bucket(keys[i])]

\* A renumbering with one counter for all packages.
renumberPerPackage_oneCounter(list) ==
    [i \in 1..Len(list) |-> [list[i] EXCEPT !.ID = i - 1]]

\* list[i].ID = pkgCCDCount[list[i].PackageID]; pkgCCDCount[...]++
renumberPerPackage(list) ==
    [i \in 1..Len(list) |->
        [list[i] EXCEPT !.ID =
            Cardinality({j \in 1..(i - 1) : list[j].PackageID = list[i].PackageID})]]

\* groupByCCD appending to AllCPUs only the CPUs it does not append to
\* PhysicalCPUs.
groupByCCD_allOrPhysical(cpus, method) ==
    LET list == ccdBuckets(cpus, method)
    IN  renumberPerPackage([i \in 1..Len(list) |->
            [list[i] EXCEPT !.AllCPUs =
                SelectSeq(@, LAMBDA id : id \notin Range(list[i].PhysicalCPUs))]])

groupByCCD(cpus, method) == renumberPerPackage(ccdBuckets(cpus, method))

\* Packages of buildAMDTopology / buildIntelHybridTopology: one per package
\* id, ascending, each with its groups in the given order.
packagesOf(coreGroups) ==
    LET packageIDs == SetToSortedSeq({coreGroups[i].PackageID : i \in 1..Len(coreGroups)})
    IN  [p \in 1..Len(packageIDs) |->
            [ID         |-> packageIDs[p],
             CoreGroups |-> SelectSeq(coreGroups,
                                      LAMBDA g : g.PackageID = packageIDs[p])]]

\* totalCPUs, totalCores, hasSMT as the three builders compute them.
snapshot(arch, infos, packages, coreGroups, method) ==
    [Architecture |-> arch,
     TotalCPUs    |-> Len(infos),
     TotalCores   |-> Len(FirstThreads(infos)),
     HasSMT       |-> Len(infos) > Len(FirstThreads(infos)),
     Packages     |-> packages,
     CoreGroups   |-> coreGroups,
     DetectMethod |-> method]

buildAMDTopology(infos) ==
    LET method     == detectCCDMethod(infos)
        coreGroups == groupByCCD(infos, method)
    IN  snapshot("amd", infos, packagesOf(coreGroups), coreGroups, method)

RECURSIVE MaxPackageID(_, _)
MaxPackageID(cpus, acc) ==
    IF Len(cpus) = 0 THEN acc
    ELSE MaxPackageID(Tail(cpus),
                      IF Head(cpus).PackageID > acc THEN Head(cpus).PackageID ELSE acc)

\* The group a CPU is put in by groupByIntelCoreType.
intelBucket(cpu) ==
    IF cpu.CoreType = "performance" THEN "performance"
    ELSE IF cpu.CoreType = "efficiency" THEN "efficiency"
    ELSE IF Len(cpu.ThreadSiblings) > 1 THEN "performance"
    ELSE "efficiency"

groupByIntelCoreType(cpus) ==
    LET group(id, type) ==
            LET members == SelectSeq(cpus, LAMBDA c : intelBucket(c) = type)
            IN  [ID           |-> id,
                 PackageID    |-> MaxPackageID(cpus, 0),
                 Type         |-> type,
                 L3CacheID    |-> -1,
                 PhysicalCPUs |-> SortInts(IDsOf(FirstThreads(members))),
                 AllCPUs      |-> SortInts(IDsOf(members))]
        pCores == group(0, "performance")
        eCores == group(1, "efficiency")
    IN  (IF Len(pCores.PhysicalCPUs) > 0 THEN <<pCores>> ELSE <<>>)
        \o (IF Len(eCores.PhysicalCPUs) > 0 THEN <<eCores>> ELSE <<>>)

buildIntelHybridTopology(infos) ==
    LET coreGroups == groupByIntelCoreType(infos)
    IN  snapshot("intel_hybrid", infos, packagesOf(coreGroups), coreGroups,
                 "intel_hybrid")

\* buildGenericTopology leaving the highest first thread out of PhysicalCPUs.
buildGenericTopology_dropLast(infos) ==
    LET physical  == SortInts(IDsOf(FirstThreads(infos)))
        coreGroup == [ID           |-> 0,
                      PackageID    |-> 0,
                      Type         |-> "unknown",
                      L3CacheID    |-> -1,
                      PhysicalCPUs |-> Take(physical, Len(physical) - 1),
                      AllCPUs      |-> SortInts(IDsOf(infos))]
    IN  snapshot("generic", infos, <<[ID |-> 0, CoreGroups |-> <<coreGroup>>]>>,
                 <<coreGroup>>, "generic")

buildGenericTopology(infos) ==
    LET coreGroup == [ID           |-> 0,
                      PackageID    |-> 0,
                      Type         |-> "unknown",
                      L3CacheID    |-> -1,
                      PhysicalCPUs |-> SortInts(IDsOf(FirstThreads(infos))),
                      AllCPUs      |-> SortInts(IDsOf(infos))]
    IN  snapshot("generic", infos, <<[ID |-> 0, CoreGroups |-> <<coreGroup>>]>>,
                 <<coreGroup>>, "generic")

\* The readCPUInfo results of Detect's loop, in ListCPUs order.
readAll(fs) ==
    LET cpuIDs == ListCPUs(fs)
    IN  [i \in 1..Len(cpuIDs) |-> readCPUInfo(cpuIDs[i], fs[cpuIDs[i]])]

\* Detect: (topology, error).  The sysfs base path is a directory.
DetectResult(vnd, fs) ==
    LET reads  == readAll(fs)
        failed == {i \in 1..Len(reads) : reads[i].err # ""}
        first  == CHOOSE i \in failed : \A j \in failed : i <= j
        infos  == [i \in 1..Len(reads) |-> reads[i].info]
        arch   == detectArchitecture(vnd, infos)
    IN  IF Len(reads) = 0
        THEN [topo |-> NilTopology, err |-> "topology unavailable"]
        ELSE IF failed # {}
        THEN [topo |-> NilTopology,
              err  |-> IF reads[first].err = "EACCES" THEN "EACCES"
                       ELSE "topology unavailable"]
        ELSE [topo |-> CASE arch = "intel_hybrid" -> buildIntelHybridTopology(infos)
                         [] arch = "amd" -> buildAMDTopology(infos)
                         [] OTHER -> buildGenericTopology(infos),
              err  |-> ""]

----------------------------------------------------------------------------
\* The affinity generator.

Desc(text, args) == [text |-> text, args |-> args]

\* An Option; selectedPhysical is the local variable of that name (the
\* physical cores chosen before SMT expansion), kept for the properties.
Option(strategy, name, description, cpus, ccdsUsed, selectedPhysical) ==
    [Strategy         |-> strategy,
     Name             |-> name,
     Description      |-> description,
     CPUs             |-> cpus,
     AffinityStr      |-> "",
     CCDsUsed         |-> ccdsUsed,
     selectedPhysical |-> selectedPhysical]

\* physicalCoresNeeded of Generate and GenerateManual
physicalCoresNeeded(coresNeeded, includeSMT, t) ==
    IF includeSMT /\ t.HasSMT THEN GoDiv(coresNeeded + 1, 2) ELSE coresNeeded

formatRange(start, end) ==
    IF start = end THEN ToString(start)
    ELSE ToString(start) \o "-" \o ToString(end)

RECURSIVE formatParts(_, _, _, _)
formatParts(sorted, i, start, prev) ==
    IF i > Len(sorted) THEN <<formatRange(start, prev)>>
    ELSE IF sorted[i] = prev + 1 THEN formatParts(sorted, i + 1, start, sorted[i])
    ELSE <<formatRange(start, prev)>> \o formatParts(sorted, i + 1, sorted[i], sorted[i])

\* strings.Join
RECURSIVE Join(_, _)
Join(parts, sep) ==
    IF Len(parts) = 0 THEN ""
    ELSE IF Len(parts) = 1 THEN parts[1]
    ELSE parts[1] \o sep \o Join(Tail(parts), sep)

\* FormatCPUs without its deduplication step.
FormatCPUs_noDedupe(cpus) ==
    IF Len(cpus) = 0 THEN ""
    ELSE LET sorted == SortInts(cpus)
         IN  Join(formatParts(sorted, 2, sorted[1], sorted[1]), ",")

FormatCPUs(cpus) ==
    IF Len(cpus) = 0 THEN ""
    ELSE LET sorted == dedupeSorted(SortInts(cpus))
         IN  Join(formatParts(sorted, 2, sorted[1], sorted[1]), ",")

\* physicalToSiblings of expandToVCPUs as the list of its assignments, in
\* the order the loops make them (a later one overwrites an earlier one).
siblingEntries(t) ==
    Flatten([g \in 1..Len(t.CoreGroups) |->
        LET cg == t.CoreGroups[g]
            numPhysical == Len(cg.PhysicalCPUs)
        IN  [i \in 1..numPhysical |->
                [phys     |-> cg.PhysicalCPUs[i],
                 siblings |-> IF (i - 1) + numPhysical < Len(cg.AllCPUs)
                              THEN <<cg.PhysicalCPUs[i], cg.AllCPUs[i + numPhysical]>>
                              ELSE <<cg.PhysicalCPUs[i]>>]]])

\* expandToVCPUs without the final sort and deduplication.
expandToVCPUs_unsorted(physicalCores, includeSMT, t) ==
    IF ~includeSMT \/ ~t.HasSMT THEN physicalCores
    ELSE LET entries == siblingEntries(t)
             lookup(phys) ==
                 LET hits == {e \in 1..Len(entries) : entries[e].phys = phys}
                 IN  IF hits = {} THEN <<phys>>
                     ELSE entries[CHOOSE e \in hits : \A o \in hits : o <= e].siblings
         IN  Flatten([k \in 1..Len(physicalCores) |-> lookup(physicalCores[k])])

expandToVCPUs(physicalCores, includeSMT, t) ==
    IF ~includeSMT \/ ~t.HasSMT THEN SortInts(physicalCores)
    ELSE LET entries == siblingEntries(t)
             lookup(phys) ==
                 LET hits == {e \in 1..Len(entries) : entries[e].phys = phys}
                 IN  IF hits = {} THEN <<phys>>
                     ELSE entries[CHOOSE e \in hits : \A o \in hits : o <= e].siblings
         IN  dedupeSorted(SortInts(Flatten(
                 [k \in 1..Len(physicalCores) |-> lookup(physicalCores[k])])))

\* allPhysicalCPUsSorted without the sort.
allPhysicalCPUs_groupOrder(t) ==
    Flatten([g \in 1..Len(t.CoreGroups) |-> t.CoreGroups[g].PhysicalCPUs])

allPhysicalCPUsSorted(t) ==
    dedupeSorted(SortInts(Flatten(
        [g \in 1..Len(t.CoreGroups) |-> t.CoreGroups[g].PhysicalCPUs])))

sortedCoreGroups(coreGroups) ==
    SortSeq(coreGroups, LAMBDA a, b :
        IF a.PackageID = b.PackageID THEN a.ID < b.ID
        ELSE a.PackageID < b.PackageID)

countCCDsUsedByPhysical(physicalCores, t) ==
    Cardinality({g \in 1..Len(t.CoreGroups) :
        Range(t.CoreGroups[g].PhysicalCPUs) \cap Range(physicalCores) # {}})

\* generateSingleCCD taking the last group that fits instead of the first.
generateSingleCCD_lastFit(r, n, t) ==
    LET fits == {g \in 1..Len(t.CoreGroups) : Len(t.CoreGroups[g].PhysicalCPUs) >= n}
        last == CHOOSE g \in fits : \A o \in fits : g >= o
        physicalCores == Take(t.CoreGroups[last].PhysicalCPUs, n)
    IN  IF fits # {}
        THEN Option("single-ccd", "Single CCD",
                    Desc("All cores from one CCD (best cache locality)", <<>>),
                    expandToVCPUs(physicalCores, r.IncludeSMT, t), 1, physicalCores)
        ELSE Option("single-ccd", "Single CCD",
                    Desc("Unavailable: no single CCD has %d cores", <<n>>),
                    <<>>, 0, <<>>)

generateSingleCCD(r, n, t) ==
    LET fits  == {g \in 1..Len(t.CoreGroups) : Len(t.CoreGroups[g].PhysicalCPUs) >= n}
        first == CHOOSE g \in fits : \A o \in fits : g <= o
        physicalCores == Take(t.CoreGroups[first].PhysicalCPUs, n)
    IN  IF fits # {}
        THEN Option("single-ccd", "Single CCD",
                    Desc("All cores from one CCD (best cache locality)", <<>>),
                    expandToVCPUs(physicalCores, r.IncludeSMT, t), 1, physicalCores)
        ELSE Option("single-ccd", "Single CCD",
                    Desc("Unavailable: no single CCD has %d cores", <<n>>),
                    <<>>, 0, <<>>)

\* The loops of generateDistributed: i is the index of the inner loop,
\* positions and usedCCDs are the locals of those names.
RECURSIVE distribute(_, _, _, _, _, _, _)
distribute(coreGroups, n, selectedPhysical, positions, usedCCDs, i, progress) ==
    IF Len(selectedPhysical) >= n
    THEN [selectedPhysical |-> selectedPhysical, usedCCDs |-> usedCCDs]
    ELSE IF i > Len(coreGroups)
    THEN (IF ~progress
          THEN [selectedPhysical |-> selectedPhysical, usedCCDs |-> usedCCDs]
          ELSE distribute(coreGroups, n, selectedPhysical, positions, usedCCDs, 1, FALSE))
    ELSE IF positions[i] >= Len(coreGroups[i].PhysicalCPUs)
    THEN distribute(coreGroups, n, selectedPhysical, positions, usedCCDs, i + 1, progress)
    ELSE distribute(coreGroups, n,
                    Append(selectedPhysical, coreGroups[i].PhysicalCPUs[positions[i] + 1]),
                    [positions EXCEPT ![i] = @ + 1], usedCCDs \cup {i}, i + 1, TRUE)

\* generateDistributed emptying each group before it goes to the next.
generateDistributed_groupByGroup(r, n, t) ==
    LET coreGroups == sortedCoreGroups(t.CoreGroups)
        selectedPhysical ==
            Take(Flatten([g \in 1..Len(coreGroups) |-> coreGroups[g].PhysicalCPUs]), n)
    IN  Option("distributed", "Distributed", Desc("Spread cores across CCDs", <<>>),
               expandToVCPUs(selectedPhysical, r.IncludeSMT, t),
               countCCDsUsedByPhysical(selectedPhysical, t), selectedPhysical)

generateDistributed(r, n, t) ==
    LET coreGroups == sortedCoreGroups(t.CoreGroups)
        d == distribute(coreGroups, n, <<>>, [i \in 1..Len(coreGroups) |-> 0], {}, 1, FALSE)
    IN  Option("distributed", "Distributed", Desc("Spread cores across CCDs", <<>>),
               expandToVCPUs(d.selectedPhysical, r.IncludeSMT, t),
               Cardinality(d.usedCCDs), d.selectedPhysical)

generateSequential(r, n, t) ==
    LET allPhysical == allPhysicalCPUsSorted(t)
        selectedPhysical == IF Len(allPhysical) > n THEN Take(allPhysical, n)
                            ELSE allPhysical
    IN  Option("sequential", "Sequential", Desc("First N cores from consecutive CCDs", <<>>),
               expandToVCPUs(selectedPhysical, r.IncludeSMT, t),
               countCCDsUsedByPhysical(selectedPhysical, t), selectedPhysical)

\* (a + b - 1) / b, the minimum-group count of generateRandom,
\* generateManualPlaceholder and MinCCDsNeeded (b > 0).
ceilDiv(a, b) == GoDiv(a + b - 1, b)

\* The loop of generateRandom and GenerateManual over the chosen group
\* indices (0-based; GenerateManual skips the out-of-range ones).
RECURSIVE takeFromGroups(_, _, _, _)
takeFromGroups(coreGroups, indices, n, selectedPhysical) ==
    IF Len(indices) = 0 THEN selectedPhysical
    ELSE LET ccdIdx == Head(indices)
             cg     == coreGroups[ccdIdx + 1]
             room   == n - Len(selectedPhysical)
             taken  == IF room <= 0 THEN <<>>
                       ELSE IF Len(cg.PhysicalCPUs) > room THEN Take(cg.PhysicalCPUs, room)
                       ELSE cg.PhysicalCPUs
         IN  IF ccdIdx < 0 \/ ccdIdx >= Len(coreGroups)
             THEN takeFromGroups(coreGroups, Tail(indices), n, selectedPhysical)
             ELSE takeFromGroups(coreGroups, Tail(indices), n, selectedPhysical \o taken)

\* generateRandom; ccdIndices is the index list after rng.Shuffle, of which
\* only ccdIndices[:minCCDsNeeded] is read.  The division panics when the
\* first group has no physical core (randomPanics).
randomPanics(t) ==
    Len(t.CoreGroups) > 0 /\ Len(t.CoreGroups[1].PhysicalCPUs) = 0

minCCDsOfRandom(n, t) ==
    LET coresPerCCD == Len(t.CoreGroups[1].PhysicalCPUs)
        minCCDsNeeded == ceilDiv(n, coresPerCCD)
    IN  IF minCCDsNeeded > Len(t.CoreGroups) THEN Len(t.CoreGroups) ELSE minCCDsNeeded

generateRandom(r, n, t, ccdIndices) ==
    IF Len(t.CoreGroups) = 0 \/ randomPanics(t)
    THEN Option("random", "Random",
                Desc("Randomly select from minimum CCDs needed", <<>>), <<>>, 0, <<>>)
    ELSE LET minCCDsNeeded == minCCDsOfRandom(n, t)
             selectedCCDs == SortInts(Take(ccdIndices, minCCDsNeeded))
             selectedPhysical == takeFromGroups(t.CoreGroups, selectedCCDs, n, <<>>)
         IN  Option("random", "Random",
                    Desc("Randomly select from minimum CCDs needed", <<>>),
                    expandToVCPUs(selectedPhysical, r.IncludeSMT, t),
                    minCCDsNeeded, selectedPhysical)

generateManualPlaceholder(r, n, t) ==
    LET coresPerCCD == IF Len(t.CoreGroups) > 0
                       THEN Len(t.CoreGroups[1].PhysicalCPUs) ELSE 0
        minCCDsNeeded == IF coresPerCCD > 0 THEN ceilDiv(n, coresPerCCD) ELSE 1
    IN  Option("manual", "Manual", Desc("Select %d CCDs manually", <<minCCDsNeeded>>),
               <<>>, minCCDsNeeded, <<>>)

\* GetPCoresCPUs / GetECoresCPUs
GetTypedCPUs(t, type) ==
    Flatten([g \in 1..Len(t.CoreGroups) |->
        IF t.CoreGroups[g].Type = type THEN t.CoreGroups[g].PhysicalCPUs ELSE <<>>])

\* GetPCoresCPUs without the IsPCore test.
GetPCoresCPUs_anyType(t) ==
    Flatten([g \in 1..Len(t.CoreGroups) |-> t.CoreGroups[g].PhysicalCPUs])

GetPCoresCPUs(t) == GetTypedCPUs(t, "performance")
GetECoresCPUs(t) == GetTypedCPUs(t, "efficiency")

generatePCoresOnly(r, n, t) ==
    LET pCores == GetPCoresCPUs(t)
    IN  IF Len(pCores) < n
        THEN Option("p-cores-only", "P-Cores Only",
                    Desc("Unavailable: only %d P-cores, need %d", <<Len(pCores), n>>),
                    <<>>, 0, <<>>)
        ELSE Option("p-cores-only", "P-Cores Only",
                    Desc("Use only Performance cores (best single-thread)", <<>>),
                    expandToVCPUs(Take(pCores, n), r.IncludeSMT, t), 1, Take(pCores, n))

generateECoresOnly(r, n, t) ==
    LET eCores == GetECoresCPUs(t)
    IN  IF Len(eCores) < n
        THEN Option("e-cores-only", "E-Cores Only",
                    Desc("Unavailable: only %d E-cores, need %d", <<Len(eCores), n>>),
                    <<>>, 0, <<>>)
        ELSE Option("e-cores-only", "E-Cores Only",
                    Desc("Use only Efficiency cores (power efficient)", <<>>),
                    expandToVCPUs(Take(eCores, n), r.IncludeSMT, t), 1, Take(eCores, n))

generateAllCores(r, n, t) ==
    LET merged == SortInts(GetPCoresCPUs(t) \o GetECoresCPUs(t))
        selectedPhysical == IF Len(merged) > n THEN Take(merged, n) ELSE merged
    IN  Option("all-cores", "All Cores",
               Desc("Use both P-cores and E-cores (maximum throughput)", <<>>),
               expandToVCPUs(selectedPhysical, r.IncludeSMT, t),
               countCCDsUsedByPhysical(selectedPhysical, t), selectedPhysical)

\* options[i].AffinityStr = FormatCPUs(options[i].CPUs)
withAffinityStr(opts) ==
    [i \in 1..Len(opts) |-> [opts[i] EXCEPT !.AffinityStr = FormatCPUs(opts[i].CPUs)]]

\* A menu whose Sequential option takes its cores from the shuffled groups.
generateAMDOptions_shuffledSequential(r, n, t, ccdIndices) ==
    withAffinityStr(<<generateSingleCCD(r, n, t),
                      generateDistributed(r, n, t),
                      [generateRandom(r, n, t, ccdIndices)
                          EXCEPT !.Strategy = "sequential", !.Name = "Sequential"],
                      generateRandom(r, n, t, ccdIndices),
                      generateManualPlaceholder(r, n, t)>>)

generateAMDOptions(r, n, t, ccdIndices) ==
    withAffinityStr(<<generateSingleCCD(r, n, t),
                      generateDistributed(r, n, t),
                      generateSequential(r, n, t),
                      generateRandom(r, n, t, ccdIndices),
                      generateManualPlaceholder(r, n, t)>>)

generateIntelOptions(r, n, t) ==
    withAffinityStr(<<generatePCoresOnly(r, n, t),
                      generateECoresOnly(r, n, t),
                      generateAllCores(r, n, t),
                      generateSequential(r, n, t),
                      generateManualPlaceholder(r, n, t)>>)

\* Generate: (options, error).  t is req.Topology (NilTopology when nil),
\* ccdIndices the outcome of the shuffle in generateRandom (the part read).
GenerateResult(r, t, ccdIndices) ==
    LET n == physicalCoresNeeded(r.CoresNeeded, r.IncludeSMT, t)
    IN  IF t = NilTopology
        THEN [options |-> <<>>, err |-> "topology is required"]
        ELSE IF r.CoresNeeded <= 0
        THEN [options |-> <<>>, err |-> "cores needed must be greater than zero"]
        ELSE IF n > t.TotalCores
        THEN [options |-> <<>>, err |-> "not enough cores"]
        ELSE IF t.Architecture = "intel_hybrid"
        THEN [options |-> generateIntelOptions(r, n, t), err |-> ""]
        ELSE IF randomPanics(t)
        THEN [options |-> <<>>, err |-> "panic: integer divide by zero"]
        ELSE [options |-> generateAMDOptions(r, n, t, ccdIndices), err |-> ""]

\* GenerateManual: (option, error); the option as a list of one, <<>> for
\* nil.  make([]int, 0, physicalCoresNeeded) panics on a negative capacity.
\* sort.Ints sorts the caller's index list in place.
GenerateManualResult(r, t, indices) ==
    LET n == physicalCoresNeeded(r.CoresNeeded, r.IncludeSMT, t)
        selectedPhysical == takeFromGroups(t.CoreGroups, SortInts(indices), n, <<>>)
    IN  IF t = NilTopology
        THEN [options |-> <<>>, err |-> "topology is required"]
        ELSE IF Len(indices) = 0
        THEN [options |-> <<>>, err |-> "no CCDs selected"]
        ELSE IF n < 0
        THEN [options |-> <<>>, err |-> "panic: makeslice: cap out of range"]
        ELSE IF Len(selectedPhysical) < n
        THEN [options |-> <<>>,
              err |-> "selected CCDs only have " \o ToString(Len(selectedPhysical))
                          \o " cores, need " \o ToString(n)]
        ELSE [options |-> withAffinityStr(<<
                  Option("manual", "Manual",
                         Desc("Manually selected %d CCDs", <<Len(indices)>>),
                         expandToVCPUs(selectedPhysical, r.IncludeSMT, t),
                         Len(indices), selectedPhysical)>>),
              err |-> ""]

\* A call that takes its cores out of the snapshot: the last group is gone.
snapshotAfterCall_lastGroupTaken(t) ==
    IF t = NilTopology THEN t
    ELSE [t EXCEPT !.CoreGroups = Take(t.CoreGroups, Len(t.CoreGroups) - 1)]

\* The snapshot after a call of Generate or GenerateManual: they read
\* req.Topology and the slices of its groups, and write only to slices they
\* made themselves (make and copy, append to a nil slice).
snapshotAfterCall(t) == t

----------------------------------------------------------------------------
\* Hosts.

\* The ways n logical CPUs pair up into cores of one or two threads:
\* sib[i] is the other thread of i's core, or i itself.
Pairings(n) == {sib \in [0..(n - 1) -> 0..(n - 1)] : \A i \in 0..(n - 1) : sib[sib[i]] = i}

FirstOf(sib, i) == IF sib[i] < i THEN sib[i] ELSE i

Vendors == {"AuthenticAMD", "GenuineIntel", ""}
Capacities == {0, 512, 1024}

\* What the cores of a host of one vendor may differ in: the attributes the
\* builder reads on the path that vendor takes.  Each element is the set of
\* attribute choices open to the cores of one host.
\*   AuthenticAMD: package 0 with L3 domains 0 and 1, package 1 with L3
\*                 domain 0 (grouping by L3 id or, with one id, by core id);
\*   GenuineIntel: one package, 0 or 1, no, low or high capacity per core;
\*   no vendor:    one package, L3 domains 0 and 1 (AMD-style or generic).
CoreChoiceSets(vnd) ==
    IF vnd = "GenuineIntel"
    THEN {[pkg : {p}, l3 : {-1}, cap : Capacities] : p \in {0, 1}}
    ELSE IF vnd = "AuthenticAMD"
    THEN {[pkg : {0}, l3 : {0, 1}, cap : {0}] \cup [pkg : {1}, l3 : {0}, cap : {0}]}
    ELSE {[pkg : {0}, l3 : {0, 1}, cap : {0}]}

\* The sysfs directory of logical CPU i, a thread of a core with attributes
\* a: no cluster_id and die_id files, a cache directory with a level-3
\* entry unless a.l3 < 0, a cpu_capacity file unless a.cap = 0.
CPUDir(i, sib, a) ==
    [physical_package_id  |-> IntFile("ok", a.pkg),
     core_id              |-> IntFile("ok", FirstOf(sib, i)),
     cluster_id           |-> Absent,
     die_id               |-> Absent,
     cache                |-> IF a.l3 >= 0
                              THEN [st |-> "found", id |-> IntFile("ok", a.l3)]
                              ELSE [st |-> "nodir", id |-> Absent],
     thread_siblings_list |-> [st |-> "ok",
                               v  |-> IF sib[i] = i THEN <<i>>
                                      ELSE IF sib[i] > i THEN <<i, sib[i]>>
                                      ELSE <<sib[i], i>>],
     cpu_capacity         |-> IF a.cap > 0 THEN IntFile("ok", a.cap) ELSE Absent]

\* The sysfs views of a machine of n logical CPUs paired by sib: the CPUs
\* listed are all of them, or (a view restricted to a CPU set, as a
\* container gets) all but the first threads in hidden.
HostsOf(n, sib, choices) ==
    UNION {{[i \in (0..(n - 1)) \ hidden |-> CPUDir(i, sib, attr[FirstOf(sib, i)])] :
               attr \in [{i \in 0..(n - 1) : sib[i] >= i} -> choices]} :
           hidden \in SUBSET {i \in 0..(n - 1) : sib[i] > i}}

\* The sysfs views of the machines of vendor vnd with at most m logical CPUs.
HostsUpTo(vnd, m) ==
    UNION {HostsOf(x[1], x[2], x[3]) :
           x \in UNION {{<<n, sib, choices>> : sib \in Pairings(n),
                                                choices \in CoreChoiceSets(vnd)} :
                        n \in 1..m}}

Hosts(vnd) == HostsUpTo(vnd, MaxCPUs)

NoRequest == [CoresNeeded |-> 0, IncludeSMT |-> FALSE]

NoExpansion == [physicalCores |-> <<>>, includeSMT |-> FALSE]

\* NewModel: the Model of the interactive flow at its first step.  vms is
\* len(m.vms); quit is set when Update has returned tea.Quit.
NewModel ==
    [step         |-> "stepCoreType",
     usePhysical  |-> FALSE,
     selectedOpt  |-> 0,
     selectedCCDs |-> {},
     vms          |-> 0,
     selectedVM   |-> 0,
     quit         |-> FALSE]

\* The values ccdIndices[:m] can have after rng.Shuffle of the indices
\* 0..k-1: the shuffle can leave any index at any place.
Shuffles(k, m) ==
    {p \in [1..m -> 0..(k - 1)] : \A i, j \in 1..m : p[i] = p[j] => i = j}

\* Whether Generate(r) on topology t gets as far as generateRandom.
reachesRandom(r, t) ==
    /\ t # NilTopology
    /\ t.Architecture # "intel_hybrid"
    /\ r.CoresNeeded > 0
    /\ physicalCoresNeeded(r.CoresNeeded, r.IncludeSMT, t) <= t.TotalCores

\* The values of ccdIndices[:minCCDsNeeded], the part of the shuffled index
\* list generateRandom reads, in Generate(r) on topology t (none on the
\* paths that do not reach the shuffle).
ShuffleOutcomes(r, t) ==
    IF reachesRandom(r, t) /\ ~randomPanics(t)
    THEN Shuffles(Len(t.CoreGroups),
                  minCCDsOfRandom(physicalCoresNeeded(r.CoresNeeded, r.IncludeSMT, t), t))
    ELSE {<<>>}

----------------------------------------------------------------------------
\* Detection followed by calls of Generate.

Init ==
    /\ vendor = ""
    /\ sysfs = <<>>
    /\ topo = NilTopology
    /\ pc = "start"
    /\ req = NoRequest
    /\ options = <<>>
    /\ err = ""
    /\ cpusArg = <<>>
    /\ affinityStr = ""
    /\ selectedCCDIndices = <<>>
    /\ repeated = FALSE
    /\ expandArg = NoExpansion
    /\ vcpus = <<>>
    /\ cpuInfos = <<>>
    /\ architecture = ""
    /\ ui = NewModel
    /\ applyCmds = 0
    /\ applyResults = <<>>
    /\ setAffinityCalls = 0

\* Detect on a host: vendor and sysfs become what the call read.
Detect ==
    /\ pc = "start"
    /\ \E vnd \in Vendors : \E fs \in Hosts(vnd) :
          LET d == DetectResult(vnd, fs)
          IN  /\ vendor' = vnd
              /\ sysfs' = fs
              /\ topo' = d.topo
              /\ err' = d.err
              /\ pc' = IF d.err = "" THEN "detected" ELSE "failed"
    /\ UNCHANGED <<req, options, cpusArg, affinityStr,
                   selectedCCDIndices, repeated, expandArg, vcpus,
                   cpuInfos, architecture,
                   ui, applyCmds, applyResults, setAffinityCalls>>

Generate ==
    /\ pc \in {"start", "detected"}
    /\ \E r \in [CoresNeeded : (-1)..(MaxCPUs + 1), IncludeSMT : BOOLEAN] :
        \E ccdIndices \in ShuffleOutcomes(r, topo) :
          LET g == GenerateResult(r, topo, ccdIndices)
          IN  /\ req' = r
              /\ options' = g.options
              /\ err' = g.err
    /\ pc' = "generated"
    /\ topo' = snapshotAfterCall(topo)
    /\ UNCHANGED <<vendor, sysfs, cpusArg, affinityStr,
                   selectedCCDIndices, repeated, expandArg, vcpus,
                   cpuInfos, architecture,
                   ui, applyCmds, applyResults, setAffinityCalls>>

Next == Detect \/ Generate

Spec == Init /\ [][Next]_vars

----------------------------------------------------------------------------
\* Calls of FormatCPUs on arbitrary slices.

\* The slices of at most MaxLen ids of 0..MaxID, and the one of the
\* documentation.
FormatInputs ==
    UNION {[1..k -> 0..MaxID] : k \in 0..MaxLen} \cup {<<0, 1, 2, 5, 7, 8>>}

InitFormat ==
    /\ vendor = ""
    /\ sysfs = <<>>
    /\ topo = NilTopology
    /\ pc = "start"
    /\ req = NoRequest
    /\ options = <<>>
    /\ err = ""
    /\ cpusArg \in FormatInputs
    /\ affinityStr = ""
    /\ selectedCCDIndices = <<>>
    /\ repeated = FALSE
    /\ expandArg = NoExpansion
    /\ vcpus = <<>>
    /\ cpuInfos = <<>>
    /\ architecture = ""
    /\ ui = NewModel
    /\ applyCmds = 0
    /\ applyResults = <<>>
    /\ setAffinityCalls = 0

Format ==
    /\ pc = "start"
    /\ affinityStr' = FormatCPUs(cpusArg)
    /\ pc' = "formatted"
    /\ UNCHANGED <<vendor, sysfs, topo, req, options, err, cpusArg,
                   selectedCCDIndices, repeated, expandArg, vcpus,
                   cpuInfos, architecture,
                   ui, applyCmds, applyResults, setAffinityCalls>>

NextFormat == Format

SpecFormat == InitFormat /\ [][NextFormat]_vars

----------------------------------------------------------------------------
\* Calls of Generate and GenerateManual, one after another, against the
\* snapshot of a host of at most MaxManualCPUs logical CPUs.

ManualRequests == [CoresNeeded : (-1)..MaxManualCPUs, IncludeSMT : BOOLEAN]

\* The index lists of at most MaxIndices indices of -1..MaxIndex, in any
\* order and with repetitions.
IndexLists == UNION {[1..k -> (-1)..MaxIndex] : k \in 0..MaxIndices}

DetectSmall ==
    /\ pc = "start"
    /\ \E vnd \in Vendors : \E fs \in HostsUpTo(vnd, MaxManualCPUs) :
          LET d == DetectResult(vnd, fs)
          IN  /\ vendor' = vnd
              /\ sysfs' = fs
              /\ topo' = d.topo
              /\ err' = d.err
              /\ pc' = IF d.err = "" THEN "detected" ELSE "failed"
    /\ UNCHANGED <<req, options, cpusArg, affinityStr,
                   selectedCCDIndices, repeated, expandArg, vcpus,
                   cpuInfos, architecture,
                   ui, applyCmds, applyResults, setAffinityCalls>>

\* A further call of Generate: with any request after a Generate call, with
\* the same request after a GenerateManual call.
GenerateAgain ==
    /\ pc \in {"generated", "manual"}
    /\ \E r \in ManualRequests :
        \E ccdIndices \in ShuffleOutcomes(r, topo) :
          LET g == GenerateResult(r, topo, ccdIndices)
          IN  /\ pc = "manual" => r = req
              /\ req' = r
              /\ options' = g.options
              /\ err' = g.err
              /\ repeated' = (pc = "generated" /\ r = req)
    /\ pc' = "generated"
    /\ selectedCCDIndices' = <<>>
    /\ topo' = snapshotAfterCall(topo)
    /\ UNCHANGED <<vendor, sysfs, cpusArg, affinityStr, expandArg, vcpus,
                   cpuInfos, architecture,
                   ui, applyCmds, applyResults, setAffinityCalls>>

\* A call of GenerateManual: the first call of the caller with any request
\* and index list, after a Generate call with the request of that call (as
\* the UI does), after a GenerateManual call with the same arguments.
GenerateManual ==
    /\ pc \in {"start", "detected", "generated", "manual"}
    /\ \E r \in ManualRequests : \E indices \in IndexLists :
          LET g == GenerateManualResult(r, topo, indices)
          IN  /\ pc \in {"generated", "manual"} => r = req
              /\ pc = "manual" => indices = selectedCCDIndices
              /\ req' = r
              /\ selectedCCDIndices' = indices
              /\ options' = g.options
              /\ err' = g.err
              /\ repeated' = (pc = "manual")
    /\ pc' = "manual"
    /\ topo' = snapshotAfterCall(topo)
    /\ UNCHANGED <<vendor, sysfs, cpusArg, affinityStr, expandArg, vcpus,
                   cpuInfos, architecture,
                   ui, applyCmds, applyResults, setAffinityCalls>>

NextManual == DetectSmall \/ Generate \/ GenerateAgain \/ GenerateManual

SpecManual == Init /\ [][NextManual]_vars

----------------------------------------------------------------------------
\* Calls of expandToVCPUs on the selections of physical cores of a snapshot.

\* The physical-core ids of snapshot t.
PhysicalIDs(t) ==
    UNION {Range(t.CoreGroups[g].PhysicalCPUs) : g \in 1..Len(t.CoreGroups)}

\* The selections of physical cores of snapshot t: its physical-core ids,
\* each at most once, in any order.
Selections(t) ==
    UNION {{sel \in [1..k -> PhysicalIDs(t)] :
               \A i, j \in 1..k : sel[i] = sel[j] => i = j} :
           k \in 0..Cardinality(PhysicalIDs(t))}

Expand ==
    /\ pc = "detected"
    /\ \E physicalCores \in Selections(topo) : \E includeSMT \in BOOLEAN :
          /\ expandArg' = [physicalCores |-> physicalCores, includeSMT |-> includeSMT]
          /\ vcpus' = expandToVCPUs(physicalCores, includeSMT, topo)
    /\ pc' = "expanded"
    /\ UNCHANGED <<vendor, sysfs, topo, req, options, err, cpusArg, affinityStr,
                   selectedCCDIndices, repeated, cpuInfos, architecture,
                   ui, applyCmds, applyResults, setAffinityCalls>>

NextExpand == DetectSmall \/ Expand

SpecExpand == Init /\ [][NextExpand]_vars

----------------------------------------------------------------------------
\* Properties.

\* The CPU records Detect built the snapshot from.
Infos == LET reads == readAll(sysfs) IN [i \in 1..Len(reads) |-> reads[i].info]

\* The ids of the canonical (first) threads among the CPUs read.
CanonicalIDs == {Infos[i].ID : i \in {j \in 1..Len(Infos) : Infos[j].IsFirstThread}}

\* Detect has returned a snapshot (Generate leaves it as it is).
HasSnapshot == pc = "detected" /\ topo # NilTopology

Panicked == err = "panic: integer divide by zero"

\* Generate returned options for a request that passed validation.
Generated == pc = "generated" /\ err = ""

\* The least k with 2k >= n.
CeilHalf(n) == CHOOSE k \in 0..n : 2 * k >= n /\ 2 * (k - 1) < n

\* The physical-core requirement of the last request, as documented.
Requirement ==
    IF req.IncludeSMT /\ topo.HasSMT THEN CeilHalf(req.CoresNeeded) ELSE req.CoresNeeded

\* C1: Generate returns an error and no options exactly when the topology is
\* absent, the requested count is <= 0 or the physical-core requirement
\* (ceil(requested/2) with SMT inclusion on an SMT topology, else the
\* requested count) exceeds the total physical-core count; in every other
\* case it returns options and no error.
C1_GenerateRejectsExactly ==
    pc = "generated" =>
        LET rejected == \/ topo = NilTopology
                        \/ req.CoresNeeded <= 0
                        \/ Requirement > topo.TotalCores
        IN  IF rejected THEN err # "" /\ ~Panicked /\ options = <<>>
            ELSE err = "" /\ options # <<>>

\* C1, the part that holds: a rejected request gets an error and no options,
\* and whenever Generate returns, it returns options exactly for the
\* requests that are not rejected.
C1_GenerateRejects ==
    pc = "generated" /\ ~Panicked =>
        LET rejected == \/ topo = NilTopology
                        \/ req.CoresNeeded <= 0
                        \/ Requirement > topo.TotalCores
        IN  IF rejected THEN err # "" /\ options = <<>>
            ELSE err = "" /\ options # <<>>

\* The strategy tags of the options returned, in order.
Menu == [i \in 1..Len(options) |-> options[i].Strategy]

AMDMenu == <<"single-ccd", "distributed", "sequential", "random", "manual">>
IntelMenu == <<"p-cores-only", "e-cores-only", "all-cores", "sequential", "manual">>

\* The request passed Generate's validation.
ValidRequest ==
    /\ pc = "generated"
    /\ topo # NilTopology
    /\ req.CoresNeeded > 0
    /\ Requirement <= topo.TotalCores

\* An option that does not hold the cores the request needs.
Unsatisfied(o) == Cardinality(Range(o.selectedPhysical)) < Requirement

\* C2: for every request that passes validation against a snapshot of the
\* builder, Generate completes and returns the five options of the
\* architecture in their fixed order, and an option of a strategy that does
\* not satisfy the request has an empty CPU set.
C2_FullMenu ==
    ValidRequest =>
        /\ err = ""
        /\ Menu = IF topo.Architecture = "intel_hybrid" THEN IntelMenu ELSE AMDMenu
        /\ \A i \in 1..Len(options) : Unsatisfied(options[i]) => options[i].CPUs = <<>>

\* C2, the part that holds: whenever Generate returns options, they are the
\* five of the architecture in order, and a strategy that reports itself
\* unavailable is among them with an empty CPU set.
C2_MenuWhenReturned ==
    Generated =>
        /\ Menu = IF topo.Architecture = "intel_hybrid" THEN IntelMenu ELSE AMDMenu
        /\ \A i \in 1..Len(options) :
              options[i].Description.args # <<>> /\ options[i].Strategy # "manual"
                  => options[i].CPUs = <<>>

\* The encoding of a set of ids: its lowest maximal run of consecutive
\* integers, then the encoding of the rest.
RECURSIVE Encode(_)
Encode(S) ==
    IF S = {} THEN ""
    ELSE LET a == CHOOSE x \in S : \A y \in S : x <= y
             b == CHOOSE x \in S : (\A y \in a..x : y \in S) /\ (x + 1) \notin S
             rest == S \ (a..b)
             run == IF a = b THEN ToString(a) ELSE ToString(a) \o "-" \o ToString(b)
         IN  IF rest = {} THEN run ELSE run \o "," \o Encode(rest)

\* C3: FormatCPUs returns the maximal runs of consecutive integers of the
\* set of ids of its input, ascending and joined by commas, a run of one id
\* as a bare number and a longer one as start-end, the empty list as the
\* empty string; the result depends only on the set of ids given.
C3_FormatCanonical ==
    pc = "formatted" =>
        /\ affinityStr = Encode(Range(cpusArg))
        /\ (cpusArg = <<0, 1, 2, 5, 7, 8>> => affinityStr = "0-2,5,7-8")
        /\ (cpusArg = <<4>> => affinityStr = "4")
        /\ (cpusArg = <<>> => affinityStr = "")

\* An unsorted slice with a duplicate has been formatted.
C3_Witness ==
    pc = "formatted" /\ cpusArg = <<8, 7, 7, 0>> /\ affinityStr = "0,7-8"

\* The Core Groups of the snapshot (none before a snapshot exists).
Groups == IF topo = NilTopology THEN <<>> ELSE topo.CoreGroups

\* C4: the Core Groups of a snapshot partition the physical cores: every
\* canonical (first-thread) id is in the PhysicalCPUs of exactly one group,
\* no PhysicalCPUs list holds an id twice, and none holds an id that is not
\* a canonical thread.
C4_GroupsPartitionPhysical ==
    HasSnapshot =>
        /\ \A id \in CanonicalIDs :
              Cardinality({g \in 1..Len(Groups) : id \in Range(Groups[g].PhysicalCPUs)}) = 1
        /\ \A g \in 1..Len(Groups) :
              /\ Cardinality(Range(Groups[g].PhysicalCPUs)) = Len(Groups[g].PhysicalCPUs)
              /\ Range(Groups[g].PhysicalCPUs) \subseteq CanonicalIDs

\* A snapshot of an SMT host with its physical cores in two groups or more.
C4_Witness ==
    /\ pc = "detected"
    /\ topo.HasSMT
    /\ Cardinality({g \in 1..Len(Groups) : Len(Groups[g].PhysicalCPUs) > 0}) >= 2

\* C5: in every Core Group of a snapshot PhysicalCPUs is a subset of AllCPUs
\* and AllCPUs has at least as many ids as PhysicalCPUs.
C5_PhysicalWithinAll ==
    HasSnapshot =>
        \A g \in 1..Len(Groups) :
            /\ Range(Groups[g].PhysicalCPUs) \subseteq Range(Groups[g].AllCPUs)
            /\ Len(Groups[g].AllCPUs) >= Len(Groups[g].PhysicalCPUs)

\* A snapshot with a group of more logical CPUs than physical cores.
C5_Witness ==
    /\ pc = "detected"
    /\ topo.Architecture = "amd"
    /\ \E g \in 1..Len(Groups) :
          /\ Len(Groups[g].PhysicalCPUs) > 0
          /\ Len(Groups[g].AllCPUs) > Len(Groups[g].PhysicalCPUs)

\* C6 as stated: in every Core Group of a snapshot PhysicalCPUs is a proper
\* subset of AllCPUs, also on a host without SMT.
C6_PhysicalStrictlyWithinAll ==
    HasSnapshot =>
        \A g \in 1..Len(Groups) :
            /\ Range(Groups[g].PhysicalCPUs) \subseteq Range(Groups[g].AllCPUs)
            /\ Range(Groups[g].PhysicalCPUs) # Range(Groups[g].AllCPUs)

\* C6: in every Core Group of a snapshot PhysicalCPUs is a subset of
\* AllCPUs, a proper one exactly when the group holds a logical CPU that is
\* not a canonical thread; on a host without SMT the two lists are equal.
C6_PhysicalProperOnlyWithSMT ==
    HasSnapshot =>
        \A g \in 1..Len(Groups) :
            /\ Range(Groups[g].PhysicalCPUs) \subseteq Range(Groups[g].AllCPUs)
            /\ Range(Groups[g].PhysicalCPUs) # Range(Groups[g].AllCPUs)
                   <=> Range(Groups[g].AllCPUs) \ CanonicalIDs # {}
            /\ ~topo.HasSMT => Groups[g].PhysicalCPUs = Groups[g].AllCPUs

\* A snapshot of a host without SMT: a group of two cores whose two lists
\* are the same.
C6_Witness ==
    /\ pc = "detected"
    /\ ~topo.HasSMT
    /\ \E g \in 1..Len(Groups) :
          /\ Len(Groups[g].PhysicalCPUs) >= 2
          /\ Groups[g].PhysicalCPUs = Groups[g].AllCPUs

\* The documented example: 16 logical CPUs, 8 physical cores (CPU i and
\* CPU i + 8 the threads of core i), cores 0-3 and 4-7 in two L3 domains,
\* and a request for 4 cores without SMT.
ExampleHost ==
    [i \in 0..15 |->
        CPUDir(i, [j \in 0..15 |-> (j + 8) % 16],
               [pkg |-> 0, l3 |-> (i % 8) \div 4, cap |-> 0])]

ExampleTopology == DetectResult("AuthenticAMD", ExampleHost).topo

ExampleOptions ==
    GenerateResult([CoresNeeded |-> 4, IncludeSMT |-> FALSE], ExampleTopology, <<0>>).options

\* Group g comes before group h in (package id, group id) order.
Before(g, h) ==
    \/ Groups[g].PackageID < Groups[h].PackageID
    \/ Groups[g].PackageID = Groups[h].PackageID /\ Groups[g].ID < Groups[h].ID

\* The ascending physical-core list of group g.
PhysicalOf(g) == SetToSortedSeq(Range(Groups[g].PhysicalCPUs))

\* Generate returned the menu of a chiplet-style or generic snapshot.
GeneratedCCD == Generated /\ topo.Architecture # "intel_hybrid"

\* C7: Single-group strategy with requirement N: if some Core Group has at
\* least N physical cores the selection is the first N of the first such
\* group in (package id, group id) order; otherwise the option has an empty
\* CPU set and an "Unavailable" description.
C7_SingleGroup ==
    /\ GeneratedCCD =>
          LET o == options[1]
              fits == {g \in 1..Len(Groups) : Len(Groups[g].PhysicalCPUs) >= Requirement}
              first == CHOOSE g \in fits : \A h \in fits : h = g \/ Before(g, h)
          IN  /\ o.Strategy = "single-ccd"
              /\ IF fits # {}
                 THEN /\ o.selectedPhysical = Take(PhysicalOf(first), Requirement)
                      /\ ~req.IncludeSMT => o.CPUs = o.selectedPhysical
                      /\ o.CPUs # <<>>
                 ELSE /\ o.CPUs = <<>>
                      /\ o.Description =
                           Desc("Unavailable: no single CCD has %d cores", <<Requirement>>)
    /\ ExampleOptions[1].CPUs = <<0, 1, 2, 3>>

\* The first group is too small for a request of two cores or more and a
\* later group serves it.
C7_Witness ==
    /\ GeneratedCCD
    /\ Requirement >= 2
    /\ Len(Groups[1].PhysicalCPUs) < Requirement
    /\ options[1].CPUs # <<>>

\* C8: Distributed strategy with a valid requirement N: the selection has
\* exactly N distinct cores, each group gives a prefix of its ascending
\* physical-core list, the numbers taken from two groups differ by more
\* than 1 only if the group that gave fewer is exhausted, and a group gives
\* more than an earlier one only if the earlier one is exhausted.
C8_Distributed ==
    /\ GeneratedCCD =>
          LET o == options[2]
              sel == Range(o.selectedPhysical)
              cnt(g) == Cardinality(sel \cap Range(Groups[g].PhysicalCPUs))
              G == 1..Len(Groups)
          IN  /\ o.Strategy = "distributed"
              /\ Len(o.selectedPhysical) = Requirement
              /\ Cardinality(sel) = Requirement
              /\ sel \subseteq UNION {Range(Groups[g].PhysicalCPUs) : g \in G}
              /\ ~req.IncludeSMT => Range(o.CPUs) = sel
              /\ \A g \in G :
                    sel \cap Range(Groups[g].PhysicalCPUs) = Range(Take(PhysicalOf(g), cnt(g)))
              /\ \A g, h \in G :
                    cnt(g) > cnt(h) + 1 => cnt(h) = Len(Groups[h].PhysicalCPUs)
              /\ \A g, h \in G :
                    Before(g, h) /\ cnt(h) > cnt(g) => cnt(g) = Len(Groups[g].PhysicalCPUs)
    /\ ExampleOptions[2].CPUs = <<0, 1, 4, 5>>

\* Two groups of two cores, three cores requested: two from the earlier
\* group, one from the later.
C8_Witness ==
    /\ GeneratedCCD
    /\ Len(Groups) = 2
    /\ Len(Groups[1].PhysicalCPUs) = 2
    /\ Len(Groups[2].PhysicalCPUs) = 2
    /\ Requirement = 3
    /\ Len(options[2].selectedPhysical) = 3

\* The index of the Sequential option in the menu of the architecture.
SequentialAt == IF topo.Architecture = "intel_hybrid" THEN 4 ELSE 3

\* C9: Sequential strategy with a valid requirement N: the selection is the
\* N lowest physical-core ids of the topology, whatever their groups.
C9_Sequential ==
    /\ Generated =>
          LET o == options[SequentialAt]
              all == UNION {Range(Groups[g].PhysicalCPUs) : g \in 1..Len(Groups)}
          IN  /\ o.Strategy = "sequential"
              /\ o.selectedPhysical = Take(SetToSortedSeq(all), Requirement)
              /\ Len(o.selectedPhysical) = Requirement
              /\ ~req.IncludeSMT => o.CPUs = o.selectedPhysical
    /\ ExampleOptions[3].CPUs = <<0, 1, 2, 3>>

\* The selection takes a core of a later group and leaves out a core of an
\* earlier group with a higher id.
C9_Witness ==
    /\ Generated
    /\ \E g, h \in 1..Len(Groups) :
          /\ g < h
          /\ Range(Groups[h].PhysicalCPUs) \cap Range(options[SequentialAt].selectedPhysical) # {}
          /\ Range(Groups[g].PhysicalCPUs) \ Range(options[SequentialAt].selectedPhysical) # {}

\* The least q with q * k >= n (k > 0).
CeilOf(n, k) == CHOOSE q \in 0..n : q * k >= n /\ (q - 1) * k < n

\* C10: Random strategy: for a valid request on a chiplet-style or generic
\* snapshot and every outcome of the shuffle, the selection has exactly N
\* distinct physical cores, they come from at most
\* min(ceil(N / size of the first group), group count) groups, which is the
\* group count the option reports, and every id is a CPU of the topology.
C10_RandomValid ==
    ValidRequest /\ topo.Architecture # "intel_hybrid" =>
        /\ err = ""
        /\ Len(options) >= 4
        /\ LET o == options[4]
               sel == Range(o.selectedPhysical)
               G == 1..Len(Groups)
               want == CeilOf(Requirement, Len(Groups[1].PhysicalCPUs))
               chosen == IF want > Len(Groups) THEN Len(Groups) ELSE want
           IN  /\ o.Strategy = "random"
               /\ Len(o.selectedPhysical) = Requirement
               /\ Cardinality(sel) = Requirement
               /\ o.CCDsUsed = chosen
               /\ Cardinality({g \in G : sel \cap Range(Groups[g].PhysicalCPUs) # {}}) <= chosen
               /\ sel \subseteq UNION {Range(Groups[g].AllCPUs) : g \in G}
               /\ Range(o.CPUs) \subseteq UNION {Range(Groups[g].AllCPUs) : g \in G}

\* GenerateManual has returned.
ManualCalled == pc = "manual"

\* The groups the index list of the last GenerateManual call selects, each
\* once; an index outside the group list selects nothing.
SelectedGroups == {g \in 1..Len(Groups) : (g - 1) \in Range(selectedCCDIndices)}

\* The physical cores of the selected groups, in ascending group-index order.
SelectedCores ==
    Flatten([g \in 1..Len(Groups) |->
                IF g \in SelectedGroups THEN Groups[g].PhysicalCPUs ELSE <<>>])

\* C11: GenerateManual, given a list of group indices whose groups hold at
\* least N physical cores in total, succeeds and returns an option whose
\* physical selection is the first N cores of the selected groups' lists in
\* ascending group-index order, whatever the order of the indices passed,
\* and whose logical CPU set has at least N distinct ids.
C11_ManualSelection ==
    /\ ManualCalled
    /\ topo # NilTopology
    /\ req.CoresNeeded > 0
    /\ selectedCCDIndices # <<>>
    /\ Len(SelectedCores) >= Requirement
    => /\ err = ""
       /\ Len(options) = 1
       /\ options[1].selectedPhysical = Take(SelectedCores, Requirement)
       /\ Cardinality(Range(options[1].CPUs)) >= Requirement

\* The capacity error of GenerateManual for a selection of have cores where
\* need are required.
CapacityError(have, need) ==
    "selected CCDs only have " \o ToString(have) \o " cores, need " \o ToString(need)

\* C12: GenerateManual fails with a capacity error stating the number of
\* cores the selection holds and the number required, and returns no
\* option, whenever the selected groups (each counted once, indices outside
\* the group list counted as nothing) hold fewer physical cores than
\* required.
C12_ManualCapacityError ==
    /\ ManualCalled
    /\ topo # NilTopology
    /\ req.CoresNeeded > 0
    /\ selectedCCDIndices # <<>>
    /\ Len(SelectedCores) < Requirement
    => /\ options = <<>>
       /\ err = CapacityError(Len(SelectedCores), Requirement)

\* C13: GenerateManual rejects (error, no option) a request with an absent
\* topology, an empty group selection or a non-positive requested count.
C13_ManualRejectsInvalid ==
    /\ ManualCalled
    /\ \/ topo = NilTopology
       \/ selectedCCDIndices = <<>>
       \/ req.CoresNeeded <= 0
    => /\ options = <<>>
       /\ err # ""
       /\ err # "panic: makeslice: cap out of range"

\* No index occurs twice in the index list of the last GenerateManual call.
DistinctIndices == Cardinality(Range(selectedCCDIndices)) = Len(selectedCCDIndices)

\* C11 and C12, the part that holds: for an index list without a repeated
\* index GenerateManual returns the selection of C11 when the selected
\* groups hold the cores required and the capacity error of C12 when they
\* do not.
C11_C12_DistinctIndices ==
    DistinctIndices => C11_ManualSelection /\ C12_ManualCapacityError

\* C14: SMT expansion: for a selection S of physical-core ids on a snapshot
\* with SMT, when SMT inclusion is requested, the expanded logical CPU set
\* is a superset of S, has at most 2 x |S| ids and is sorted ascending
\* without duplicates.
C14_ExpansionBounded ==
    pc = "expanded" /\ topo.HasSMT /\ expandArg.includeSMT =>
        /\ Range(expandArg.physicalCores) \subseteq Range(vcpus)
        /\ Len(vcpus) <= 2 * Cardinality(Range(expandArg.physicalCores))
        /\ \A i \in 1..(Len(vcpus) - 1) : vcpus[i] < vcpus[i + 1]

\* A selection of two cores passed in descending order has been expanded
\* with a sibling.
C14_Witness ==
    /\ pc = "expanded"
    /\ topo.HasSMT
    /\ expandArg.includeSMT
    /\ Len(expandArg.physicalCores) = 2
    /\ expandArg.physicalCores[1] > expandArg.physicalCores[2]
    /\ Len(vcpus) > 2

\* The last call was made without SMT inclusion or on a snapshot without SMT.
WithoutSMT == ~req.IncludeSMT \/ ~topo.HasSMT

\* C15: when SMT inclusion is not requested or the topology has no SMT, the
\* logical CPU set of every option equals its physical selection in
\* ascending order, and an available option (one with CPUs) for a request
\* of N processors contains exactly N distinct CPU ids.
C15_NoSMTExpansion ==
    Generated /\ WithoutSMT =>
        \A i \in 1..Len(options) :
            /\ options[i].CPUs = SortInts(options[i].selectedPhysical)
            /\ options[i].CPUs # <<>> =>
                   Cardinality(Range(options[i].CPUs)) = req.CoresNeeded

\* C15, the part that holds: without SMT expansion the CPU set of every
\* option is its physical selection in ascending order, and every available
\* option other than Random has exactly N distinct ids.
C15_NoSMTExpansionButRandom ==
    Generated /\ WithoutSMT =>
        \A i \in 1..Len(options) :
            /\ options[i].CPUs = SortInts(options[i].selectedPhysical)
            /\ options[i].CPUs # <<>> /\ options[i].Strategy # "random" =>
                   Cardinality(Range(options[i].CPUs)) = req.CoresNeeded

\* Generate returned the menu of a hybrid snapshot.
GeneratedHybrid == Generated /\ topo.Architecture = "intel_hybrid"

\* The groups of a type, their physical cores in ascending order and their
\* logical CPUs.
GroupsOfType(type) == {g \in 1..Len(Groups) : Groups[g].Type = type}
CoresOfType(type) ==
    SetToSortedSeq(UNION {Range(Groups[g].PhysicalCPUs) : g \in GroupsOfType(type)})
CPUsOfType(type) == UNION {Range(Groups[g].AllCPUs) : g \in GroupsOfType(type)}

\* Option o is the typed option of C16 for the cores of a type, unavailable
\* with description text when fewer than N cores of the type exist.
TypedOption(o, type, text) ==
    IF Len(CoresOfType(type)) < Requirement
    THEN /\ o.CPUs = <<>>
         /\ o.Description = Desc(text, <<Len(CoresOfType(type)), Requirement>>)
    ELSE /\ o.selectedPhysical = Take(CoresOfType(type), Requirement)
         /\ o.CPUs # <<>>
         /\ Range(o.selectedPhysical) \subseteq Range(o.CPUs)
         /\ Range(o.CPUs) \subseteq CPUsOfType(type)
         /\ o.Description.args = <<>>

\* C16: on a hybrid snapshot the P-cores-only option contains only CPUs of
\* performance-typed groups and the E-cores-only option only CPUs of
\* efficiency-typed groups; each selects the first N physical cores of its
\* type and is unavailable (empty CPU set, "Unavailable" description)
\* exactly when fewer than N physical cores of the type exist.
C16_TypedOptions ==
    GeneratedHybrid =>
        /\ TypedOption(options[1], "performance", "Unavailable: only %d P-cores, need %d")
        /\ TypedOption(options[2], "efficiency", "Unavailable: only %d E-cores, need %d")

\* A hybrid SMT snapshot, SMT inclusion requested: the P-cores-only option
\* is available with more CPUs than cores, the E-cores-only option is not.
C16_Witness ==
    /\ GeneratedHybrid
    /\ req.IncludeSMT
    /\ topo.HasSMT
    /\ Len(options[1].CPUs) > Len(options[1].selectedPhysical)
    /\ Len(CoresOfType("efficiency")) > 0
    /\ options[2].CPUs = <<>>

\* The number of Core Groups that hold a core of option o's selection.
GroupsDrawnFrom(o) ==
    Cardinality({g \in 1..Len(Groups) :
                    Range(Groups[g].PhysicalCPUs) \cap Range(o.selectedPhysical) # {}})

\* C17: for every option with a non-empty CPU set returned by Generate or
\* GenerateManual, CCDsUsed equals the number of distinct Core Groups that
\* contain at least one of the selected physical cores.
C17_GroupCount ==
    pc \in {"generated", "manual"} /\ err = "" =>
        \A i \in 1..Len(options) :
            options[i].CPUs # <<>> => options[i].CCDsUsed = GroupsDrawnFrom(options[i])

\* C17, the part that holds: the group count of every available option of
\* Generate other than Random is the number of groups drawn from.
C17_GroupCountButRandomManual ==
    Generated =>
        \A i \in 1..Len(options) :
            options[i].CPUs # <<>> /\ options[i].Strategy # "random" =>
                options[i].CCDsUsed = GroupsDrawnFrom(options[i])

----------------------------------------------------------------------------
\* Determinism.

\* os and os2 are equal in every option other than Random.
SameButRandom(os, os2) ==
    /\ Len(os) = Len(os2)
    /\ \A i \in 1..Len(os) :
          /\ os[i].Strategy = os2[i].Strategy
          /\ os[i].Strategy # "random" => os[i] = os2[i]

C18_ManualRepeated == repeated /\ pc = "manual" /\ err = "" /\ options # <<>>

----------------------------------------------------------------------------
\* Frame.

----------------------------------------------------------------------------
\* Detection on a sysfs some of whose files cannot be read.

\* The per-CPU attributes in the order readCPUInfo reads them.
Attributes ==
    <<"physical_package_id", "core_id", "cluster_id", "die_id", "l3_cache_id",
      "thread_siblings_list", "cpu_capacity">>

\* How a read fails: permission denied, or content that does not parse.
FaultKinds == {"EACCES", "garbage"}

RECURSIVE SubsetsUpTo(_, _)
SubsetsUpTo(S, k) ==
    IF k = 0 THEN {{}}
    ELSE LET P == SubsetsUpTo(S, k - 1)
         IN  P \cup {p \cup {x} : p \in P, x \in S}

\* The assignments of a fault kind to at most MaxFaults files of fs.
FaultSets(fs) ==
    UNION {[S -> FaultKinds] :
           S \in SubsetsUpTo((DOMAIN fs) \X Range(Attributes), MaxFaults)}

\* fs with the files in DOMAIN F failing as F says; the L3 id file is the id
\* file of a level-3 entry of the cache directory.
Faulted(fs, F) ==
    LET file(c, a, f) == IF <<c, a>> \in DOMAIN F THEN IntFile(F[<<c, a>>], 0) ELSE f
    IN  [c \in DOMAIN fs |->
           [physical_package_id  |-> file(c, "physical_package_id", fs[c].physical_package_id),
            core_id              |-> file(c, "core_id", fs[c].core_id),
            cluster_id           |-> file(c, "cluster_id", fs[c].cluster_id),
            die_id               |-> file(c, "die_id", fs[c].die_id),
            cache                |-> IF <<c, "l3_cache_id">> \in DOMAIN F
                                     THEN [st |-> "found",
                                           id |-> IntFile(F[<<c, "l3_cache_id">>], 0)]
                                     ELSE fs[c].cache,
            thread_siblings_list |-> IF <<c, "thread_siblings_list">> \in DOMAIN F
                                     THEN [st |-> F[<<c, "thread_siblings_list">>], v |-> <<>>]
                                     ELSE fs[c].thread_siblings_list,
            cpu_capacity         |-> file(c, "cpu_capacity", fs[c].cpu_capacity)]]

DetectFaulted ==
    /\ pc = "start"
    /\ \E vnd \in Vendors : \E base \in HostsUpTo(vnd, MaxFaultCPUs) :
        \E F \in FaultSets(base) :
          LET fs == Faulted(base, F)
              d  == DetectResult(vnd, fs)
          IN  /\ vendor' = vnd
              /\ sysfs' = fs
              /\ topo' = d.topo
              /\ err' = d.err
              /\ pc' = IF d.err = "" THEN "detected" ELSE "failed"
    /\ UNCHANGED <<req, options, cpusArg, affinityStr,
                   selectedCCDIndices, repeated, expandArg, vcpus,
                   cpuInfos, architecture,
                   ui, applyCmds, applyResults, setAffinityCalls>>

NextFaulted == DetectFaulted

SpecFaulted == Init /\ [][NextFaulted]_vars

----------------------------------------------------------------------------
\* Permission errors of detection.

DetectReturned == pc \in {"detected", "failed"}

\* What reading attribute a of the CPU directory d meets: "ok", "ENOENT" or
\* a failure.
FileState(d, a) ==
    IF a = "l3_cache_id"
    THEN IF d.cache.st = "found" THEN d.cache.id.st ELSE "ENOENT"
    ELSE d[a].st

AttributeIndex(a) == CHOOSE i \in 1..Len(Attributes) : Attributes[i] = a

\* Every read Detect makes before it reads attribute a of CPU c finds the
\* file readable or absent, so Detect does read attribute a of CPU c.
ReadsBeforeSucceed(c, a) ==
    \A c2 \in DOMAIN sysfs : \A a2 \in Range(Attributes) :
        (c2 < c \/ (c2 = c /\ AttributeIndex(a2) < AttributeIndex(a))) =>
            FileState(sysfs[c2], a2) \in {"ok", "ENOENT"}

\* Detect's read of an attribute in as fails with a permission error.
PermissionDeniedIn(as) ==
    \E c \in DOMAIN sysfs : \E a \in as :
        FileState(sysfs[c], a) = "EACCES" /\ ReadsBeforeSucceed(c, a)

\* C20: if reading any per-CPU attribute (package id, core id, cluster id,
\* die id, L3 cache id, thread-sibling list, capacity) fails with a
\* permission error, Detect fails with that permission error, not with
\* topology-unavailable, and returns no topology.
C20_PermissionDenied ==
    DetectReturned /\ PermissionDeniedIn(Range(Attributes)) =>
        err = "EACCES" /\ topo = NilTopology

\* The same for the attributes other than the L3 cache id and the capacity.
C20_PermissionDeniedButIgnored ==
    DetectReturned
      /\ PermissionDeniedIn(Range(Attributes) \ {"l3_cache_id", "cpu_capacity"}) =>
        err = "EACCES" /\ topo = NilTopology

\* A permission error on the L3 cache id only, and a topology returned.
C20_IgnoredL3 ==
    /\ pc = "detected"
    /\ topo # NilTopology
    /\ \E c \in DOMAIN sysfs : FileState(sysfs[c], "l3_cache_id") = "EACCES"
    /\ \A c \in DOMAIN sysfs : FileState(sysfs[c], "cpu_capacity") # "EACCES"

\* A permission error on the capacity only, and a topology returned.
C20_IgnoredCapacity ==
    /\ pc = "detected"
    /\ topo # NilTopology
    /\ \E c \in DOMAIN sysfs : FileState(sysfs[c], "cpu_capacity") = "EACCES"
    /\ \A c \in DOMAIN sysfs : FileState(sysfs[c], "l3_cache_id") # "EACCES"

----------------------------------------------------------------------------
\* Read failures other than permission errors.

\* No file of the sysfs fails with a permission error.
NoPermissionDenied ==
    \A c \in DOMAIN sysfs : \A a \in Range(Attributes) :
        FileState(sysfs[c], a) # "EACCES"

\* Some file in as is there and its content does not parse.
UnparsableIn(as) ==
    \E c \in DOMAIN sysfs : \E a \in as : FileState(sysfs[c], a) = "garbage"

\* C21: a failure reading a per-CPU attribute that is not a permission error
\* (file missing, empty or not parsable) is treated as the attribute being
\* absent: the default is substituted and detection succeeds.
C21_FailuresAreAbsence ==
    DetectReturned /\ sysfs # <<>> /\ NoPermissionDenied =>
        err = "" /\ topo # NilTopology

\* The same where the only files that do not parse are L3 cache ids and
\* capacities.
C21_FailuresAreAbsenceIfIgnored ==
    DetectReturned /\ sysfs # <<>> /\ NoPermissionDenied
      /\ ~UnparsableIn(Range(Attributes) \ {"l3_cache_id", "cpu_capacity"}) =>
        err = "" /\ topo # NilTopology

\* Detection failed as unavailable on a core id that does not parse, with
\* every other file readable or absent.
C21_UnparsableCoreID ==
    /\ pc = "failed"
    /\ err = "topology unavailable"
    /\ \E c \in DOMAIN sysfs :
          /\ FileState(sysfs[c], "core_id") = "garbage"
          /\ \A c2 \in DOMAIN sysfs : \A a \in Range(Attributes) :
                <<c2, a>> # <<c, "core_id">> => FileState(sysfs[c2], a) \in {"ok", "ENOENT"}

----------------------------------------------------------------------------
\* Packages.

\* The package id Detect read for logical CPU id.
PackageOfCPU(id) ==
    LET i == CHOOSE j \in 1..Len(Infos) : Infos[j].ID = id IN Infos[i].PackageID

\* Group g holds CPUs of its own package only and is listed under exactly
\* one Package container, the one with its package id.
InOnePackage(g) ==
    /\ \A id \in Range(g.AllCPUs) : PackageOfCPU(id) = g.PackageID
    /\ \A id \in Range(g.PhysicalCPUs) : PackageOfCPU(id) = g.PackageID
    /\ Cardinality({p \in 1..Len(topo.Packages) :
                       \E k \in 1..Len(topo.Packages[p].CoreGroups) :
                           topo.Packages[p].CoreGroups[k] = g}) = 1
    /\ \A p \in 1..Len(topo.Packages) :
          (\E k \in 1..Len(topo.Packages[p].CoreGroups) :
               topo.Packages[p].CoreGroups[k] = g) => topo.Packages[p].ID = g.PackageID

\* C22: every Core Group of a snapshot (AMD-style, hybrid or generic) belongs
\* to exactly one package: its CPUs all have the group's package id, and the
\* group is listed under exactly one Package container, the one with that id.
C22_GroupInOnePackage ==
    HasSnapshot => \A g \in 1..Len(Groups) : InOnePackage(Groups[g])

\* The same for AMD-style snapshots.
C22_GroupInOnePackageAMD ==
    HasSnapshot /\ topo.Architecture = "amd" =>
        \A g \in 1..Len(Groups) : InOnePackage(Groups[g])

\* An AMD-style snapshot of a host with two packages.
C22_TwoPackages ==
    HasSnapshot /\ topo.Architecture = "amd" /\ Len(topo.Packages) = 2

----------------------------------------------------------------------------
\* Architecture classification on its own.

\* A CPUInfo of a core of one thread, as readCPUInfo fills it.
CPURecord(id, pkg, core, cluster, die, l3, cap) ==
    [ID             |-> id,
     PackageID      |-> pkg,
     CoreID         |-> core,
     ClusterID      |-> cluster,
     DieID          |-> die,
     L3CacheID      |-> l3,
     ThreadSiblings |-> <<id>>,
     IsFirstThread  |-> TRUE,
     CoreType       |-> detectCoreType(cap),
     Capacity       |-> cap]

\* vendor_id strings: the two AMD tokens, the Intel token, another vendor,
\* and no vendor_id line.
VendorStrings == {"AuthenticAMD", "AMD", "GenuineIntel", "HygonGenuine", ""}

\* CPU-record lists of at most MaxRecords CPUs differing in what
\* hasHybridCores and hasMultipleL3 read.
ClassifyInputs ==
    UNION {[1..n -> {-1, 0, 1} \X Capacities] : n \in 0..MaxRecords}

Classify ==
    /\ pc = "start"
    /\ \E vnd \in VendorStrings : \E x \in ClassifyInputs :
          LET cpus == [i \in 1..Len(x) |->
                          CPURecord(i - 1, 0, i - 1, -1, -1, x[i][1], x[i][2])]
          IN  /\ vendor' = vnd
              /\ cpuInfos' = cpus
              /\ architecture' = detectArchitecture(vnd, cpus)
    /\ pc' = "classified"
    /\ UNCHANGED <<sysfs, topo, req, options, err, cpusArg, affinityStr,
                   selectedCCDIndices, repeated, expandArg, vcpus,
                   ui, applyCmds, applyResults, setAffinityCalls>>

NextClassify == Classify

SpecClassify == Init /\ [][NextClassify]_vars

\* The values of field f (a function of a record) over the records of
\* cpuInfos that satisfy keep.
ObservedValues(f(_), keep(_)) ==
    {f(cpuInfos[i]) : i \in {j \in 1..Len(cpuInfos) : keep(cpuInfos[j])}}

NonZeroCapacities ==
    ObservedValues(LAMBDA c : c.Capacity, LAMBDA c : c.Capacity # 0)

NonNegativeL3 ==
    ObservedValues(LAMBDA c : c.L3CacheID, LAMBDA c : c.L3CacheID >= 0)

\* C23: the architecture is decided in this order: an AMD vendor token gives
\* AMD-style; the Intel token with at least two distinct non-zero capacities
\* gives hybrid; a vendor that is neither, with more than one distinct
\* non-negative L3 id, gives AMD-style; every other case, Intel without two
\* distinct capacities included whatever its L3 ids, gives generic.
C23_Classification ==
    pc = "classified" =>
        architecture = IF vendor \in {"AuthenticAMD", "AMD"} THEN "amd"
               ELSE IF vendor = "GenuineIntel" /\ Cardinality(NonZeroCapacities) >= 2
               THEN "intel_hybrid"
               ELSE IF vendor # "GenuineIntel" /\ Cardinality(NonNegativeL3) > 1
               THEN "amd"
               ELSE "generic"

\* Intel records with one capacity and two L3 ids, classified generic.
C23_Witness ==
    /\ pc = "classified"
    /\ vendor = "GenuineIntel"
    /\ Cardinality(NonZeroCapacities) = 1
    /\ Cardinality(NonNegativeL3) = 2
    /\ architecture = "generic"

----------------------------------------------------------------------------
\* AMD-style grouping on its own.

\* CPU-record lists of n CPUs differing in what detectCCDMethod and
\* groupByCCD read: package id, core id (0 and 8, on either side of
\* defaultCoresPerCCD), L3 id, cluster id, die id.
GroupInputs(n) ==
    [1..n -> {0, 1} \X {0, 8} \X {-1, 0, 2} \X {-1, 0, 1} \X {-1, 0, 1}]

Group ==
    /\ pc = "start"
    /\ \E n \in 1..MaxRecords : \E x \in GroupInputs(n) :
          LET cpus == [i \in 1..Len(x) |->
                          CPURecord(i - 1, x[i][1], x[i][2], x[i][4], x[i][5], x[i][3], 0)]
          IN  /\ cpuInfos' = cpus
              /\ topo' = buildAMDTopology(cpus)
    /\ pc' = "grouped"
    /\ UNCHANGED <<vendor, sysfs, req, options, err, cpusArg, affinityStr,
                   selectedCCDIndices, repeated, expandArg, vcpus, architecture,
                   ui, applyCmds, applyResults, setAffinityCalls>>

NextGroup == Group

SpecGroup == Init /\ [][NextGroup]_vars

Grouped == pc = "grouped"

\* Every record of cpuInfos has a non-negative value of field f.
AllReport(f(_)) == \A i \in 1..Len(cpuInfos) : f(cpuInfos[i]) >= 0

\* The grouping method by the documented order of preference.
ChosenMethod ==
    IF AllReport(LAMBDA c : c.L3CacheID)
       /\ Cardinality({cpuInfos[i].L3CacheID : i \in 1..Len(cpuInfos)}) >= 2
    THEN "l3_cache"
    ELSE IF AllReport(LAMBDA c : c.ClusterID) THEN "cluster_id"
    ELSE IF AllReport(LAMBDA c : c.DieID) THEN "die_id"
    ELSE "inferred"

\* The value of the chosen key for record c.
ChosenKey(c) ==
    CASE ChosenMethod = "l3_cache"   -> c.L3CacheID
      [] ChosenMethod = "cluster_id" -> c.ClusterID
      [] ChosenMethod = "die_id"     -> c.DieID
      [] OTHER -> c.CoreID \div 8

\* The positions in the group list of the groups whose AllCPUs holds id.
GroupsHolding(id) == {g \in 1..Len(Groups) : id \in Range(Groups[g].AllCPUs)}

\* C24: the grouping method is the first applicable of L3 id (every CPU has
\* one and two values differ), cluster id (every CPU has one), die id (every
\* CPU has one) and core_id div 8; it is the snapshot's detection-method
\* tag, and two CPUs are in the same group exactly when they agree on
\* package id and on the chosen key.
C24_GroupingMethod ==
    Grouped =>
        /\ topo.DetectMethod = ChosenMethod
        /\ \A i, j \in 1..Len(cpuInfos) :
              (GroupsHolding(cpuInfos[i].ID) \cap GroupsHolding(cpuInfos[j].ID) # {})
                <=> /\ cpuInfos[i].PackageID = cpuInfos[j].PackageID
                    /\ ChosenKey(cpuInfos[i]) = ChosenKey(cpuInfos[j])
        /\ \A i \in 1..Len(cpuInfos) : Cardinality(GroupsHolding(cpuInfos[i].ID)) = 1

\* Two CPUs of one package with L3 ids 0 and 2 and with cluster ids, grouped
\* by L3 id into two groups.
C24_Witness ==
    /\ Grouped
    /\ Len(cpuInfos) = 2
    /\ cpuInfos[1].PackageID = cpuInfos[2].PackageID
    /\ AllReport(LAMBDA c : c.ClusterID)
    /\ cpuInfos[1].ClusterID = cpuInfos[2].ClusterID
    /\ topo.DetectMethod = "l3_cache"
    /\ Len(Groups) = 2

\* The raw key of group g: the chosen key of the CPUs it holds.
RawKey(g) ==
    LET i == CHOOSE j \in 1..Len(cpuInfos) : cpuInfos[j].ID \in Range(g.AllCPUs)
    IN  ChosenKey(cpuInfos[i])

\* The positions in the group list of the groups of package p, ascending.
GroupsOfPackage(p) ==
    SetToSortedSeq({g \in 1..Len(Groups) : Groups[g].PackageID = p})

\* C25: after AMD-style grouping the group ids of each package are exactly
\* 0, 1, ..., k-1 in ascending order of the raw group key, whatever the raw
\* key values, and the group list is ascending by (package id, group id).
C25_Renumbered ==
    Grouped =>
        /\ \A p \in {Groups[g].PackageID : g \in 1..Len(Groups)} :
              LET gs == GroupsOfPackage(p)
              IN  /\ \A k \in 1..Len(gs) : Groups[gs[k]].ID = k - 1
                  /\ \A k \in 1..(Len(gs) - 1) :
                        RawKey(Groups[gs[k]]) < RawKey(Groups[gs[k + 1]])
        /\ \A g \in 1..(Len(Groups) - 1) :
              \/ Groups[g].PackageID < Groups[g + 1].PackageID
              \/ /\ Groups[g].PackageID = Groups[g + 1].PackageID
                 /\ Groups[g].ID < Groups[g + 1].ID

\* Two packages of one group each, the second group's raw key 2.
C25_Witness ==
    /\ Grouped
    /\ Len(Groups) = 2
    /\ Groups[1].PackageID = 0
    /\ Groups[2].PackageID = 1
    /\ RawKey(Groups[2]) = 2
    /\ Groups[2].ID = 0

----------------------------------------------------------------------------
\* The L3 id of a CPU record.

\* C26: a CPU record's L3 id is non-negative only if a level-3 cache entry
\* was found for the CPU and its id was read; with no cache directory, no
\* entry of level 3, or a level-3 entry whose id cannot be read, it is -1.
C26_L3OnlyIfRead ==
    pc = "detected" =>
        \A i \in 1..Len(Infos) :
            IF FileState(sysfs[Infos[i].ID], "l3_cache_id") = "ok"
            THEN Infos[i].L3CacheID >= 0
            ELSE Infos[i].L3CacheID = -1

\* The same for the CPUs whose level-3 id was read or that have no level-3
\* entry.
C26_L3OnlyIfReadButUnreadable ==
    pc = "detected" =>
        \A i \in 1..Len(Infos) :
            /\ FileState(sysfs[Infos[i].ID], "l3_cache_id") = "ok" =>
                  Infos[i].L3CacheID >= 0
            /\ FileState(sysfs[Infos[i].ID], "l3_cache_id") = "ENOENT" =>
                  Infos[i].L3CacheID = -1

\* A record with L3 id 0 for a CPU whose level-3 id cannot be read.
C26_UnreadableIsZero ==
    /\ pc = "detected"
    /\ \E i \in 1..Len(Infos) :
          /\ FileState(sysfs[Infos[i].ID], "l3_cache_id") \in {"EACCES", "garbage"}
          /\ Infos[i].L3CacheID = 0

----------------------------------------------------------------------------
\* Threads of unselected cores.

\* The thread-sibling list Detect read for logical CPU id.
SiblingsOfCPU(id) ==
    LET i == CHOOSE j \in 1..Len(Infos) : Infos[j].ID = id
    IN  Range(Infos[i].ThreadSiblings)

\* Every id of option o's CPU set is a selected physical core or a thread
\* sibling of one.
OnlySelectedThreads(o) ==
    \A id \in Range(o.CPUs) :
        \/ id \in Range(o.selectedPhysical)
        \/ \E p \in Range(o.selectedPhysical) : id \in SiblingsOfCPU(p)

\* C27: with SMT inclusion on an SMT topology every logical id of an
\* option's CPU set is a selected physical core or a member of the
\* thread-sibling list of one, for any numbering of the siblings.
C27_NoForeignThreads ==
    Generated /\ req.IncludeSMT /\ topo.HasSMT =>
        \A i \in 1..Len(options) : OnlySelectedThreads(options[i])

\* In every group every core has two threads listed, and the first threads
\* are numbered below the second threads (as in 0/8, 1/9).
SplitNumbering ==
    \A g \in 1..Len(Groups) :
        /\ \A p \in Range(Groups[g].PhysicalCPUs) :
              /\ Cardinality(SiblingsOfCPU(p)) = 2
              /\ SiblingsOfCPU(p) \subseteq Range(Groups[g].AllCPUs)
        /\ Len(Groups[g].AllCPUs) = 2 * Len(Groups[g].PhysicalCPUs)
        /\ \A p \in Range(Groups[g].PhysicalCPUs) :
              \A a \in Range(Groups[g].AllCPUs) \ Range(Groups[g].PhysicalCPUs) : p < a
        /\ \A p, q \in Range(Groups[g].PhysicalCPUs) :
              p < q => \A a \in SiblingsOfCPU(p) \ {p} : \A b \in SiblingsOfCPU(q) \ {q} : a < b

\* The same on hosts numbered that way.
C27_NoForeignThreadsIfSplit ==
    Generated /\ req.IncludeSMT /\ topo.HasSMT /\ SplitNumbering =>
        \A i \in 1..Len(options) : OnlySelectedThreads(options[i])

\* Options for a host numbered 0/2, 1/3 with both cores in one group.
C27_SplitHost ==
    /\ Generated /\ req.IncludeSMT /\ topo.HasSMT /\ SplitNumbering
    /\ \E g \in 1..Len(Groups) : Len(Groups[g].PhysicalCPUs) = 2
    /\ \E i \in 1..Len(options) : Len(options[i].CPUs) = 2

----------------------------------------------------------------------------
\* Groups without a physical core.

\* C28: every Core Group of a snapshot a builder produced (AMD-style, hybrid
\* or generic) has at least one physical core, so the size of the first
\* group, the divisor of the minimum group count in the Random strategy and
\* the Manual placeholder, is never zero.
C28_GroupsNonEmpty ==
    HasSnapshot => \A g \in 1..Len(Groups) : Len(Groups[g].PhysicalCPUs) >= 1

\* Every CPU named in a thread-sibling list has its directory listed.
AllSiblingsListed ==
    \A i \in 1..Len(Infos) : Range(Infos[i].ThreadSiblings) \subseteq DOMAIN sysfs

\* The same for hybrid snapshots, and for hosts where the threads of every
\* core are all listed.
C28_GroupsNonEmptyIfListed ==
    HasSnapshot /\ (topo.Architecture = "intel_hybrid" \/ AllSiblingsListed) =>
        \A g \in 1..Len(Groups) : Len(Groups[g].PhysicalCPUs) >= 1

\* An AMD-style snapshot whose first group has no physical core.
C28_EmptyFirstGroup ==
    /\ HasSnapshot
    /\ topo.Architecture = "amd"
    /\ Len(Groups) >= 2
    /\ Len(Groups[1].PhysicalCPUs) = 0

----------------------------------------------------------------------------
\* Enough logical CPUs.

\* C29: every option with a non-empty CPU set that Generate returns for a
\* request of n processors has at least n distinct logical CPUs, also when
\* SMT inclusion halves the physical-core requirement and some selected
\* cores have one thread.
C29_EnoughCPUs ==
    Generated =>
        \A i \in 1..Len(options) :
            options[i].CPUs # <<>> =>
                Cardinality(Range(options[i].CPUs)) >= req.CoresNeeded

\* The same for the options other than Random, where the requirement is not
\* halved or every core has two threads listed, the first threads numbered
\* below the second.
C29_EnoughCPUsButRandomMixed ==
    Generated /\ (req.IncludeSMT /\ topo.HasSMT => SplitNumbering) =>
        \A i \in 1..Len(options) :
            options[i].CPUs # <<>> /\ options[i].Strategy # "random" =>
                Cardinality(Range(options[i].CPUs)) >= req.CoresNeeded

\* An option other than Random with fewer CPUs than processors requested.
C29_ShortOption ==
    /\ Generated
    /\ AllSiblingsListed
    /\ \E i \in 1..Len(options) :
          /\ options[i].Strategy = "sequential"
          /\ options[i].CPUs # <<>>
          /\ Cardinality(Range(options[i].CPUs)) < req.CoresNeeded

----------------------------------------------------------------------------
\* The interactive flow (Model.Update).

\* type step: the steps in the order of their constants.
Steps ==
    <<"stepCoreType", "stepCoreCount", "stepStrategy", "stepManualCCD", "stepAction",
      "stepSelectVM", "stepConfirm", "stepApplying", "stepDone", "stepError">>

StepIndex(st) == CHOOSE i \in 1..Len(Steps) : Steps[i] = st

\* len(m.options) once Generate has returned: both menus have five options,
\* the last of them Manual.
NumOptions == Len(AMDMenu)

Keys == {"q", "up", "down", " ", "enter", "esc"}

\* What Update returns: the model and the command ("" for nil).
Returned(m, cmd) == [m |-> m, cmd |-> cmd]

\* selectedOpt += delta, wrapped into 0..(n - 1) as moveCursor wraps it.
wrapCursor(v, n) == IF v < 0 THEN n - 1 ELSE IF v >= n THEN 0 ELSE v

moveCursor(m, delta) ==
    CASE m.step = "stepCoreType"  -> [m EXCEPT !.usePhysical = delta < 0]
      [] m.step = "stepStrategy"  ->
            [m EXCEPT !.selectedOpt = wrapCursor(m.selectedOpt + delta, NumOptions)]
      [] m.step = "stepManualCCD" ->
            [m EXCEPT !.selectedOpt = wrapCursor(m.selectedOpt + delta, MaxUIGroups)]
      [] m.step = "stepAction"    -> [m EXCEPT !.selectedOpt = (m.selectedOpt + 1) % 2]
      [] m.step = "stepSelectVM"  ->
            [m EXCEPT !.selectedVM = wrapCursor(m.selectedVM + delta, m.vms)]
      [] m.step = "stepConfirm"   -> [m EXCEPT !.selectedOpt = (m.selectedOpt + 1) % 2]
      [] OTHER -> m

\* handleEnter: the results it can return.  What it reads outside the model
\* (the text typed, the results of Generate, GenerateManual and ListVMs) is
\* any of its outcomes.
handleEnter(m) ==
    CASE m.step = "stepCoreType" ->
            {Returned([m EXCEPT !.step = "stepCoreCount"], "blink")}
      [] m.step = "stepCoreCount" ->
            {Returned(m, ""),
             Returned([m EXCEPT !.step = "stepError"], ""),
             Returned([m EXCEPT !.selectedOpt = 0, !.step = "stepStrategy"], "")}
      [] m.step = "stepStrategy" ->
            IF m.selectedOpt = NumOptions - 1
            THEN {Returned([m EXCEPT !.selectedCCDs = {}, !.selectedOpt = 0,
                                     !.step = "stepManualCCD"], "")}
            ELSE {Returned(m, ""),
                  Returned([m EXCEPT !.selectedOpt = 0, !.step = "stepAction"], "")}
      [] m.step = "stepManualCCD" ->
            {Returned(m, "")}
            \cup (IF m.selectedCCDs = {} THEN {}
                  ELSE {Returned([m EXCEPT !.step = "stepError"], ""),
                        Returned([m EXCEPT !.selectedOpt = 0, !.step = "stepAction"], "")})
      [] m.step = "stepAction" ->
            IF m.selectedOpt = 0
            THEN {Returned([m EXCEPT !.step = "stepDone"], "")}
            ELSE {Returned([m EXCEPT !.step = "stepError"], "")}
                 \cup {Returned([m EXCEPT !.vms = n, !.selectedVM = 0,
                                          !.step = "stepSelectVM"], "") :
                       n \in 0..MaxVMs}
      [] m.step = "stepSelectVM" ->
            IF m.vms = 0 THEN {Returned(m, "")}
            ELSE {Returned([m EXCEPT !.selectedOpt = 0, !.step = "stepConfirm"], "")}
      [] m.step = "stepConfirm" ->
            IF m.selectedOpt = 1 THEN {Returned(m, "quit")}
            ELSE {Returned([m EXCEPT !.step = "stepApplying"], "applyAffinity")}
      [] m.step \in {"stepDone", "stepError"} -> {Returned(m, "quit")}
      [] OTHER -> {Returned(m, "")}

\* Update on a key message.
UpdateKey(m, key) ==
    CASE key = "q"     -> {Returned(m, "quit")}
      [] key = "up"    -> {Returned(moveCursor(m, -1), "")}
      [] key = "down"  -> {Returned(moveCursor(m, 1), "")}
      [] key = " "     ->
            IF m.step = "stepManualCCD" /\ m.selectedOpt < MaxUIGroups
            THEN {Returned([m EXCEPT !.selectedCCDs =
                               IF m.selectedOpt \in @ THEN @ \ {m.selectedOpt}
                               ELSE @ \cup {m.selectedOpt}], "")}
            ELSE {Returned(m, "")}
      [] key = "enter" -> handleEnter(m)
      [] key = "esc"   ->
            IF StepIndex(m.step) > StepIndex("stepCoreType")
               /\ StepIndex(m.step) < StepIndex("stepDone")
            THEN LET back == Steps[StepIndex(m.step) - 1]
                 IN  IF back = "stepStrategy"
                     THEN {Returned([m EXCEPT !.step = back,
                                              !.selectedOpt = NumOptions - 1], "")}
                     ELSE {Returned([m EXCEPT !.step = back], "")}
            ELSE {Returned(m, "")}

\* Update on an applyResultMsg.
UpdateApplyResult(m, failed) ==
    IF failed THEN [m EXCEPT !.step = "stepError"] ELSE [m EXCEPT !.step = "stepDone"]

\* A key press reaches Update.  At most MaxApplies apply commands are
\* followed.
KeyPress ==
    /\ ~ui.quit
    /\ \E key \in Keys : \E r \in UpdateKey(ui, key) :
          /\ r.cmd = "applyAffinity" => applyCmds + setAffinityCalls < MaxApplies
          /\ ui' = [r.m EXCEPT !.quit = (r.cmd = "quit")]
          /\ applyCmds' = IF r.cmd = "applyAffinity" THEN applyCmds + 1 ELSE applyCmds
    /\ UNCHANGED <<vendor, sysfs, topo, pc, req, options, err, cpusArg, affinityStr,
                   selectedCCDIndices, repeated, expandArg, vcpus, cpuInfos,
                   architecture, applyResults, setAffinityCalls>>

\* The runtime runs an applyAffinity command: pve.SetAffinity is called and
\* its result becomes a message.
RunApply ==
    /\ ~ui.quit
    /\ applyCmds > 0
    /\ applyCmds' = applyCmds - 1
    /\ setAffinityCalls' = setAffinityCalls + 1
    /\ \E failed \in BOOLEAN : applyResults' = Append(applyResults, failed)
    /\ UNCHANGED <<vendor, sysfs, topo, pc, req, options, err, cpusArg, affinityStr,
                   selectedCCDIndices, repeated, expandArg, vcpus, cpuInfos,
                   architecture, ui>>

\* An applyResultMsg reaches Update.
ApplyResult ==
    /\ ~ui.quit
    /\ applyResults # <<>>
    /\ ui' = UpdateApplyResult(ui, Head(applyResults))
    /\ applyResults' = Tail(applyResults)
    /\ UNCHANGED <<vendor, sysfs, topo, pc, req, options, err, cpusArg, affinityStr,
                   selectedCCDIndices, repeated, expandArg, vcpus, cpuInfos,
                   architecture, applyCmds, setAffinityCalls>>

NextUI == KeyPress \/ RunApply \/ ApplyResult

SpecUI == Init /\ [][NextUI]_vars

----------------------------------------------------------------------------
\* The Applying step.

\* The apply commands started whose result Update has not received.
AppliesUnderWay == applyCmds + Len(applyResults)

\* C30: once the Applying step is entered the model leaves it only on
\* receipt of the apply result, to Done or to Error: no key press before
\* the result moves the model to an earlier step or starts a second apply
\* command.
C30_ApplyingHeld ==
    [][/\ (ui.step = "stepApplying" /\ ui'.step # "stepApplying") =>
             /\ ui'.step \in {"stepDone", "stepError"}
             /\ Len(applyResults') < Len(applyResults)
       /\ AppliesUnderWay' <= 1]_vars

\* The same but for the esc key: the model leaves Applying to an earlier
\* step only by going to Confirm, and otherwise on the result.
C30_ApplyingHeldButEsc ==
    [][(ui.step = "stepApplying" /\ ui'.step \notin {"stepApplying", "stepConfirm"}) =>
             /\ ui'.step \in {"stepDone", "stepError"}
             /\ Len(applyResults') < Len(applyResults)]_vars

\* Two apply commands under way at once.
C30_TwoApplies == AppliesUnderWay = 2

\* Back at Confirm with an apply command under way.
C30_BackAtConfirm == ui.step = "stepConfirm" /\ AppliesUnderWay = 1 /\ ~ui.quit

============================================================================
